---- MODULE Spec2Model ----
(***************************************************************************)
(* Internet of Space Things: the transport protocol engine                 *)
(* (communication/protocols/deep_space_protocol.py) and the topology       *)
(* manager (core/space_network.py) as state machines.                      *)
(*                                                                         *)
(* Conventions.  A Python str or bytes value is a sequence of character    *)
(* codes.  time.time() is a whole number of seconds.  A coroutine that is  *)
(* suspended at an await is a record in timers (asyncio.sleep of the       *)
(* ack-timeout flow) or in inflight (asyncio.sleep of                      *)
(* _transmit_to_neighbor); everything a coroutine does between two         *)
(* suspension points is one action.  The sleep of _transmit_to_neighbor    *)
(* (0.1 s plus an exponential delay of mean 0.05 s) ends within the second *)
(* it began in: the clock does not advance while a transmission is in      *)
(* flight, and any other call may run in between.                          *)
(***************************************************************************)
EXTENDS Integers, Sequences, FiniteSets, TLC

(***************************************************************************)
(* Bounds of the model.                                                    *)
(***************************************************************************)
\* send_packet calls that build a packet (caps sequence_counter)
MaxSeq == 1
\* links established, bytes sent through the network
MaxLinks == 2
MaxData == 4
\* links established where routes are compared
MaxTopologyLinks == 3
MaxTopologyData == 2
\* bytes sent from node A to node C where links wear out
MaxChainData == 202
\* the nodes a packet passes
MaxRelays == 11
\* seconds after StartTime up to which the clock may advance with no timer due
Horizon == 3601
\* hops appended to the route history of a packet examined on its own
MaxHops == 1
\* packets built where sequence numbers are examined, and the seconds after
\* StartTime this is followed for
MaxBurst == 2
\* spectrum sensings of a radio
MaxSensing == 2
\* chunk transmissions and mitigation calls of a radio
MaxUses == 13
BurstHorizon == 302

(***************************************************************************)
(* Program constants.                                                      *)
(***************************************************************************)
max_retries == 5
ack_timeout == 300
packet_cache_duration == 3600
max_packet_size == 65536
DEFAULT_TTL == 86400
\* width of a node-id or packet-id field on the wire
ID_FIELD == 32
\* width of the checksum field on the wire and of the id field of an ACK payload
DIGEST_FIELD == 64
\* route entries that serialize writes
MAX_ROUTE_ENTRIES == 10

\* SpaceNetwork.link_timeout, seconds
link_timeout == 1800

\* Python's None where a packet is expected, and where a checksum is expected
\* (no string: a string is a sequence of character codes, none of them negative)
None == [none |-> TRUE]
\* a name that is not bound yet
Unset == [unset |-> TRUE]
NoChecksum == <<-1>>

(***************************************************************************)
(* Strings and bytes.                                                      *)
(***************************************************************************)
Min(a, b) == IF a < b THEN a ELSE b
Max(a, b) == IF a > b THEN a ELSE b

RECURSIVE Pow(_, _)
Pow(b, e) == IF e = 0 THEN 1 ELSE b * Pow(b, e - 1)

NUL == 0
Zeros(n) == [i \in 1..n |-> NUL]

\* data[a:b] of Python: 0-based, half-open, clamped to the length
Slice(s, a, b) == SubSeq(s, a + 1, Min(b, Len(s)))

\* s.ljust(n, b'\x00'): pads, never truncates
LJust(s, n) == IF Len(s) >= n THEN s ELSE s \o Zeros(n - Len(s))

RECURSIVE RStrip(_)
RStrip(s) ==
    IF s = <<>> THEN s
    ELSE IF s[Len(s)] = NUL THEN RStrip(SubSeq(s, 1, Len(s) - 1)) ELSE s

RECURSIVE LStrip(_)
LStrip(s) ==
    IF s = <<>> THEN s
    ELSE IF s[1] = NUL THEN LStrip(Tail(s)) ELSE s

\* s.strip('\x00')
Strip(s) == LStrip(RStrip(s))

\* str(n) for a natural number, as character codes ("0" is 48)
RECURSIVE Digits(_)
Digits(n) == IF n < 10 THEN <<48 + n>> ELSE Digits(n \div 10) \o <<48 + (n % 10)>>

\* str(t) for a float holding a whole number of seconds: "1700000000.0"
FloatStr(t) == Digits(t) \o <<46, 48>>

RECURSIVE Concat(_)
Concat(ss) == IF ss = <<>> THEN <<>> ELSE Head(ss) \o Concat(Tail(ss))

Reverse(s) == [i \in 1..Len(s) |-> s[Len(s) + 1 - i]]

SeqToSet(s) == {s[i] : i \in 1..Len(s)}

\* struct.pack of an unsigned integer on w bytes, big-endian ('!')
RECURSIVE PackBE(_, _)
PackBE(n, w) == IF w = 0 THEN <<>> ELSE PackBE(n \div 256, w - 1) \o <<n % 256>>

RECURSIVE UnpackBE(_)
UnpackBE(bs) ==
    IF bs = <<>> THEN 0 ELSE UnpackBE(SubSeq(bs, 1, Len(bs) - 1)) * 256 + bs[Len(bs)]

\* struct.pack without '!' uses the native byte order (little-endian)
PackNative(n, w) == Reverse(PackBE(n, w))

\* struct.pack('d', t): the 8 bytes of the double; for the whole-second
\* timestamps of the model the 8-byte integer stands for the IEEE-754 bytes
\* (both are injective on them)
PackDouble(t) == PackBE(t, 8)
UnpackDouble(bs) == UnpackBE(bs)

\* '32s': encode()[:32] padded with NUL
Field32(s) == LJust(Slice(s, 0, ID_FIELD), ID_FIELD)

(***************************************************************************)
(* Packet types and priorities.                                            *)
(***************************************************************************)
PacketTypeValue ==
    [DATA |-> 1, ACK |-> 2, NACK |-> 3, HEARTBEAT |-> 4, EMERGENCY |-> 5,
     ROUTING_UPDATE |-> 6, TIME_SYNC |-> 7]
PacketType == DOMAIN PacketTypeValue
PacketTypeOf(v) == CHOOSE t \in PacketType : PacketTypeValue[t] = v

PriorityValue == [LOW |-> 1, NORMAL |-> 2, HIGH |-> 3, CRITICAL |-> 4, EMERGENCY |-> 5]
Priority == DOMAIN PriorityValue
PriorityOf(v) == CHOOSE p \in Priority : PriorityValue[p] = v

(***************************************************************************)
(* The checksum.  hashlib.sha256(data).hexdigest() is 64 characters; the    *)
(* model's digest is 64 character codes that determine data when data has  *)
(* at most 192 bytes (three bytes per character, base 257), which covers   *)
(* every packet the model builds: a collision-free SHA-256.                *)
(***************************************************************************)
HEX_BASE == 1000

RECURSIVE Lane(_, _, _)
Lane(data, j, k) ==
    IF j + DIGEST_FIELD * k > Len(data) THEN 0
    ELSE (data[j + DIGEST_FIELD * k] + 1) * Pow(257, Min(k, 2)) + Lane(data, j, k + 1)

Sha256Hex(data) == [j \in 1..DIGEST_FIELD |-> HEX_BASE + Lane(data, j, 0)]

ChecksumData(p) ==
    p.packet_id \o p.source_id \o p.destination_id
      \o <<PacketTypeValue[p.packet_type]>> \o <<PriorityValue[p.priority]>>
      \o p.payload \o PackNative(p.sequence_number, 4)
      \o Reverse(PackDouble(p.timestamp))

_calculate_checksum(p) == Sha256Hex(ChecksumData(p))

is_valid(p) == p.checksum = _calculate_checksum(p)

\* DeepSpacePacket(...): the dataclass constructor with __post_init__
DeepSpacePacket(pid, src, dst, type, prio, payload, seq, ts, route, checksum) ==
    LET p == [packet_id |-> pid, source_id |-> src, destination_id |-> dst,
              packet_type |-> type, priority |-> prio, payload |-> payload,
              sequence_number |-> seq, timestamp |-> ts, ttl |-> DEFAULT_TTL,
              route_history |-> route, checksum |-> checksum, retry_count |-> 0]
    IN  IF checksum = NoChecksum THEN [p EXCEPT !.checksum = _calculate_checksum(p)] ELSE p

(***************************************************************************)
(* The wire format.                                                        *)
(***************************************************************************)
\* struct.calcsize('!32s32s32sBBIId')
HeaderSize == ID_FIELD + ID_FIELD + ID_FIELD + 1 + 1 + 4 + 4 + 8

\* variant: the deserializer reads the header at its packed size
DESERIALIZE_HEADER_SIZE_packed == HeaderSize

\* the header size _deserialize_packet assumes: len(data) < 142, data[:142],
\* data[142:143], and 143 = 142 + 1 as the start of the route entries
DESERIALIZE_HEADER_SIZE == 142

serialize(p) ==
    LET header == Field32(p.packet_id) \o Field32(p.source_id)
                    \o Field32(p.destination_id)
                    \o <<PacketTypeValue[p.packet_type]>>
                    \o <<PriorityValue[p.priority]>>
                    \o PackBE(p.sequence_number, 4)
                    \o PackBE(Len(p.payload), 4)
                    \o PackDouble(p.timestamp)
        hops == Slice(p.route_history, 0, MAX_ROUTE_ENTRIES)
        route_data == Concat([i \in 1..Len(hops) |-> Field32(hops[i])])
        route_header == <<Len(p.route_history)>>
        checksum_data == LJust(Slice(p.checksum, 0, DIGEST_FIELD), DIGEST_FIELD)
    IN  header \o route_header \o route_data \o checksum_data \o p.payload

\* struct.unpack(fmt, buf) raises unless len(buf) = calcsize(fmt); the
\* try/except of _deserialize_packet turns every exception into None
_deserialize_packet(data) ==
    IF Len(data) < DESERIALIZE_HEADER_SIZE THEN None
    ELSE LET buf == Slice(data, 0, DESERIALIZE_HEADER_SIZE) IN
    IF Len(buf) # HeaderSize THEN None
    ELSE LET type_v == buf[3 * ID_FIELD + 1]
             prio_v == buf[3 * ID_FIELD + 2] IN
    IF type_v \notin {PacketTypeValue[t] : t \in PacketType}
         \/ prio_v \notin {PriorityValue[q] : q \in Priority}
         \/ Len(data) < DESERIALIZE_HEADER_SIZE + 1 THEN None
    ELSE LET packet_id == RStrip(Slice(buf, 0, ID_FIELD))
             source_id == RStrip(Slice(buf, ID_FIELD, 2 * ID_FIELD))
             destination_id == RStrip(Slice(buf, 2 * ID_FIELD, 3 * ID_FIELD))
             sequence_number == UnpackBE(Slice(buf, 3 * ID_FIELD + 2, 3 * ID_FIELD + 6))
             payload_length == UnpackBE(Slice(buf, 3 * ID_FIELD + 6, 3 * ID_FIELD + 10))
             timestamp == UnpackDouble(Slice(buf, 3 * ID_FIELD + 10, 3 * ID_FIELD + 18))
             route_count == data[DESERIALIZE_HEADER_SIZE + 1]
             route_start == DESERIALIZE_HEADER_SIZE + 1
             route_data == Slice(data, route_start, route_start + route_count * ID_FIELD)
             entries == [i \in 1..route_count |->
                            RStrip(Slice(route_data, (i - 1) * ID_FIELD, i * ID_FIELD))]
             route_history == SelectSeq(entries, LAMBDA e : e # <<>>)
             checksum_start == route_start + route_count * ID_FIELD
             checksum == RStrip(Slice(data, checksum_start, checksum_start + DIGEST_FIELD))
             payload_start == checksum_start + DIGEST_FIELD
             payload == Slice(data, payload_start, payload_start + payload_length)
         IN  DeepSpacePacket(packet_id, source_id, destination_id,
                             PacketTypeOf(type_v), PriorityOf(prio_v), payload,
                             sequence_number, timestamp, route_history, checksum)


(***************************************************************************)
(* State.                                                                  *)
(***************************************************************************)
VARIABLES
    \* time.time()
    now,
    \* DeepSpaceProtocol.__init__
    node_id, sequence_counter, pending_acks, received_packets, duplicate_filter,
    routing_table, neighbor_nodes, link_qualities,
    packets_sent, packets_received, packets_dropped, bytes_transmitted,
    bytes_received,
    \* coroutines suspended in asyncio.sleep: the ack-timeout flows, and the
    \* calls inside _transmit_to_neighbor
    timers, inflight,
    \* observations: the resends of the ack-timeout flows, the delivery
    \* failures logged, the call being made and its result
    retry_log, failures, event,
    \* the ack-timeout expiries that found the packet still pending, per packet
    expiries,
    \* the packets whose ACK was handed to receive_packet during the backoff
    \* sleep their ack-timeout flow is in
    acks_in_backoff,
    \* SpaceNetwork.__init__: nodes and links are dicts, kept as the sequence
    \* of their values in insertion order
    nodes, links, network_routing_table, total_data_transmitted,
    network_status, emergency_protocols_active,
    \* a DeepSpacePacket object on its own: the packet, the packet as it was
    \* when its checksum was computed, its bytes, and what they parse to
    sample, sealed, encoded, decoded,
    \* MultibandRadio.__init__, and the adaptive_transmission call suspended in
    \* the asyncio.sleep of _transmit_chunk
    radio, transmission,
    \* observation: the chunk transmissions begun and the mitigation calls made
    radio_uses

protocol_vars ==
    <<node_id, sequence_counter, pending_acks, received_packets, duplicate_filter,
      routing_table, neighbor_nodes, link_qualities>>
stats_vars ==
    <<packets_sent, packets_received, packets_dropped, bytes_transmitted,
      bytes_received>>
task_vars == <<timers, inflight>>
observed_vars == <<retry_log, failures, expiries, acks_in_backoff>>
network_vars ==
    <<nodes, links, network_routing_table, total_data_transmitted, network_status,
      emergency_protocols_active>>
packet_vars == <<sample, sealed, encoded, decoded>>
radio_vars == <<radio, transmission, radio_uses>>

(***************************************************************************)
(* Dictionaries.                                                           *)
(***************************************************************************)
EmptyDict == [k \in {} |-> 0]
Put(d, k, v) == [x \in DOMAIN d \cup {k} |-> IF x = k THEN v ELSE d[x]]
Del(d, k) == [x \in DOMAIN d \ {k} |-> d[x]]
Get(d, k, default) == IF k \in DOMAIN d THEN d[k] ELSE default

(***************************************************************************)
(* Node ids and inputs.                                                    *)
(***************************************************************************)
NodeA == <<65>>
NodeB == <<66>>
NodeC == <<67>>
Underscore == <<95>>
Dash == <<45>>

\* the first value of the clock
StartTime == 1700000000

\* f"{self.node_id}_{self.sequence_counter}_{time.time()}"
PacketId(node, seq, t) == node \o Underscore \o Digits(seq) \o Underscore \o FloatStr(t)

SmallPayload == <<104, 105>>
\* max_packet_size + 1 bytes
OversizePayload == Zeros(max_packet_size) \o <<NUL>>

NoRoute == "no_route"

\* the protocol object as one record, for the handlers below
Self ==
    [node_id |-> node_id, sequence_counter |-> sequence_counter,
     pending_acks |-> pending_acks, received_packets |-> received_packets,
     duplicate_filter |-> duplicate_filter, routing_table |-> routing_table,
     neighbor_nodes |-> neighbor_nodes, link_qualities |-> link_qualities,
     packets_sent |-> packets_sent, packets_received |-> packets_received,
     packets_dropped |-> packets_dropped, bytes_transmitted |-> bytes_transmitted,
     bytes_received |-> bytes_received, timers |-> timers, inflight |-> inflight,
     retry_log |-> retry_log, failures |-> failures, expiries |-> expiries,
     acks_in_backoff |-> acks_in_backoff]

Commit(s) ==
    /\ node_id' = s.node_id
    /\ sequence_counter' = s.sequence_counter
    /\ pending_acks' = s.pending_acks
    /\ received_packets' = s.received_packets
    /\ duplicate_filter' = s.duplicate_filter
    /\ routing_table' = s.routing_table
    /\ neighbor_nodes' = s.neighbor_nodes
    /\ link_qualities' = s.link_qualities
    /\ packets_sent' = s.packets_sent
    /\ packets_received' = s.packets_received
    /\ packets_dropped' = s.packets_dropped
    /\ bytes_transmitted' = s.bytes_transmitted
    /\ bytes_received' = s.bytes_received
    /\ timers' = s.timers
    /\ inflight' = s.inflight
    /\ retry_log' = s.retry_log
    /\ failures' = s.failures
    /\ expiries' = s.expiries
    /\ acks_in_backoff' = s.acks_in_backoff
    /\ UNCHANGED <<network_vars, packet_vars, radio_vars>>

(***************************************************************************)
(* Routing and transmission.                                               *)
(***************************************************************************)
\* _route_packet up to its await: the neighbor the packet goes to, or NoRoute
NextHop(s, destination) ==
    IF destination \in DOMAIN s.neighbor_nodes THEN destination
    ELSE LET next_hop == Get(s.routing_table, destination, <<>>) IN
         IF next_hop # <<>> THEN next_hop ELSE NoRoute

\* a coroutine suspended in the asyncio.sleep of _transmit_to_neighbor:
\* caller is the flow to resume, rx the received packet that flow is handling
Suspended(caller, packet, neighbor, rx, rx_len) ==
    [caller |-> caller, packet |-> packet, neighbor |-> neighbor, rx |-> rx,
     rx_len |-> rx_len]

\* variant: with no route the packet is handed to the destination itself
_route_packet_direct(s, packet, caller, rx, rx_len) ==
    LET hop == NextHop(s, packet.destination_id)
        to == IF hop = NoRoute THEN packet.destination_id ELSE hop
    IN  [s |-> [s EXCEPT !.inflight =
                   @ \cup {Suspended(caller, packet, to, rx, rx_len)}],
         routed |-> TRUE]

\* _route_packet: [s, routed]; routed is FALSE when it returned False at once
_route_packet(s, packet, caller, rx, rx_len) ==
    LET hop == NextHop(s, packet.destination_id) IN
    IF hop = NoRoute THEN [s |-> s, routed |-> FALSE]
    ELSE [s |-> [s EXCEPT !.inflight =
                    @ \cup {Suspended(caller, packet, hop, rx, rx_len)}],
          routed |-> TRUE]

\* _transmit_to_neighbor after its sleep; link quality in hundredths
_transmit_to_neighbor(s, neighbor_id, packet, caller) ==
    LET link_id == s.node_id \o Dash \o neighbor_id
        current_quality == Get(s.link_qualities, link_id, 100)
    IN  [s EXCEPT !.link_qualities = Put(@, link_id, Min(100, current_quality + 1))]

\* variant: the size check comes after the sequence number is taken
send_packet_late_check(s, destination, payload, packet_type, priority, caller, rx, rx_len) ==
    LET s1 == [s EXCEPT !.sequence_counter = @ + 1] IN
    IF Len(payload) > max_packet_size
    THEN [s |-> s1, routed |-> FALSE, packet |-> None] ELSE
    LET packet == DeepSpacePacket(PacketId(s.node_id, s.sequence_counter, now),
                                  s.node_id, destination, packet_type, priority,
                                  payload, s.sequence_counter, now, <<>>, NoChecksum)
        s2 == IF packet_type = "DATA"
              THEN [s1 EXCEPT
                      !.pending_acks = Put(@, packet.packet_id, packet),
                      !.timers = Put(@, packet.packet_id,
                                     [pc |-> "timeout", wake |-> now + ack_timeout,
                                      packet |-> packet, expiry |-> now])]
              ELSE s1
        r == _route_packet(s2, packet, caller, rx, rx_len)
    IN  [s |-> r.s, routed |-> r.routed, packet |-> packet]

\* variant: the sequence number is taken only when the packet found a route
send_packet_counts_routed(s, destination, payload, packet_type, priority, caller, rx, rx_len) ==
    IF Len(payload) > max_packet_size
    THEN [s |-> s, routed |-> FALSE, packet |-> None] ELSE
    LET packet == DeepSpacePacket(PacketId(s.node_id, s.sequence_counter, now),
                                  s.node_id, destination, packet_type, priority,
                                  payload, s.sequence_counter, now, <<>>, NoChecksum)
        s2 == IF packet_type = "DATA"
              THEN [s EXCEPT
                      !.pending_acks = Put(@, packet.packet_id, packet),
                      !.timers = Put(@, packet.packet_id,
                                     [pc |-> "timeout", wake |-> now + ack_timeout,
                                      packet |-> packet, expiry |-> now])]
              ELSE s
        r == _route_packet(s2, packet, caller, rx, rx_len)
    IN  [s |-> IF r.routed THEN [r.s EXCEPT !.sequence_counter = @ + 1] ELSE r.s,
         routed |-> r.routed, packet |-> packet]

\* variant: a DATA packet is tracked only when it found a route
send_packet_tracks_routed(s, destination, payload, packet_type, priority, caller, rx, rx_len) ==
    IF Len(payload) > max_packet_size
    THEN [s |-> s, routed |-> FALSE, packet |-> None] ELSE
    LET packet == DeepSpacePacket(PacketId(s.node_id, s.sequence_counter, now),
                                  s.node_id, destination, packet_type, priority,
                                  payload, s.sequence_counter, now, <<>>, NoChecksum)
        s1 == [s EXCEPT !.sequence_counter = @ + 1]
        r == _route_packet(s1, packet, caller, rx, rx_len)
        s2 == IF packet_type = "DATA" /\ r.routed
              THEN [r.s EXCEPT
                      !.pending_acks = Put(@, packet.packet_id, packet),
                      !.timers = Put(@, packet.packet_id,
                                     [pc |-> "timeout", wake |-> now + ack_timeout,
                                      packet |-> packet, expiry |-> now])]
              ELSE r.s
    IN  [s |-> s2, routed |-> r.routed, packet |-> packet]

\* variant: a DATA packet is tracked but no ack-timeout flow is started
send_packet_untimed(s, destination, payload, packet_type, priority, caller, rx, rx_len) ==
    IF Len(payload) > max_packet_size
    THEN [s |-> s, routed |-> FALSE, packet |-> None] ELSE
    LET packet == DeepSpacePacket(PacketId(s.node_id, s.sequence_counter, now),
                                  s.node_id, destination, packet_type, priority,
                                  payload, s.sequence_counter, now, <<>>, NoChecksum)
        s1 == [s EXCEPT !.sequence_counter = @ + 1]
        s2 == IF packet_type = "DATA"
              THEN [s1 EXCEPT !.pending_acks = Put(@, packet.packet_id, packet)]
              ELSE s1
        r == _route_packet(s2, packet, caller, rx, rx_len)
    IN  [s |-> r.s, routed |-> r.routed, packet |-> packet]

\* send_packet up to its return False or to the await in _route_packet:
\* [s, routed, packet]; packet is None when the payload was rejected
send_packet(s, destination, payload, packet_type, priority, caller, rx, rx_len) ==
    IF Len(payload) > max_packet_size
    THEN [s |-> s, routed |-> FALSE, packet |-> None] ELSE
    LET packet == DeepSpacePacket(PacketId(s.node_id, s.sequence_counter, now),
                                  s.node_id, destination, packet_type, priority,
                                  payload, s.sequence_counter, now, <<>>, NoChecksum)
        s1 == [s EXCEPT !.sequence_counter = @ + 1]
        s2 == IF packet_type = "DATA"
              THEN [s1 EXCEPT
                      !.pending_acks = Put(@, packet.packet_id, packet),
                      !.timers = Put(@, packet.packet_id,
                                     [pc |-> "timeout", wake |-> now + ack_timeout,
                                      packet |-> packet, expiry |-> now])]
              ELSE s1
        r == _route_packet(s2, packet, caller, rx, rx_len)
    IN  [s |-> r.s, routed |-> r.routed, packet |-> packet]

\* send_packet after _route_packet returned True
send_packet_done(s, packet) ==
    [s EXCEPT !.packets_sent = @ + 1,
              !.bytes_transmitted = @ + Len(serialize(packet))]

(***************************************************************************)
(* receive_packet.                                                         *)
(***************************************************************************)
\* _is_duplicate: [dup, filter]
_is_duplicate(s, packet) ==
    LET packet_key == packet.source_id \o Underscore \o Digits(packet.sequence_number)
        kept == {k \in DOMAIN s.duplicate_filter :
                    ~(now - s.duplicate_filter[k] > packet_cache_duration)}
        cleaned == [k \in kept |-> s.duplicate_filter[k]]
    IN  IF packet_key \in kept THEN [dup |-> TRUE, filter |-> cleaned]
        ELSE [dup |-> FALSE, filter |-> Put(cleaned, packet_key, now)]

\* the tail of receive_packet after the handler returned
receive_done(s, rx_len) ==
    [s EXCEPT !.packets_received = @ + 1, !.bytes_received = @ + rx_len]

\* the id an ACK or NACK payload refers to
ReferencedId(payload) == Strip(Slice(payload, 0, DIGEST_FIELD))

_handle_ack(s, ack_packet) ==
    IF Len(ack_packet.payload) >= DIGEST_FIELD
         /\ ReferencedId(ack_packet.payload) \in DOMAIN s.pending_acks
    THEN [s EXCEPT !.pending_acks = Del(@, ReferencedId(ack_packet.payload))]
    ELSE s

\* _handle_nack: [s, routed]
_handle_nack(s, nack_packet, rx_len) ==
    IF Len(nack_packet.payload) >= DIGEST_FIELD
         /\ ReferencedId(nack_packet.payload) \in DOMAIN s.pending_acks
    THEN _route_packet(s, s.pending_acks[ReferencedId(nack_packet.payload)],
                       "_handle_nack", nack_packet, rx_len)
    ELSE [s |-> s, routed |-> FALSE]

_handle_heartbeat(s, heartbeat_packet) ==
    [s EXCEPT !.neighbor_nodes = Put(@, heartbeat_packet.source_id, now)]

\* _handle_routing_update decodes the payload and logs
_handle_routing_update(s, routing_packet) == s

\* _handle_received_packet: [s, routed]; when the ACK is routed the packet is
\* stored after the transmission (ReceivedStored below)
ReceivedStored(s, packet) ==
    [s EXCEPT !.received_packets = Put(@, packet.packet_id, packet)]

_handle_received_packet(s, packet, rx_len) ==
    IF packet.packet_type = "DATA"
    THEN LET r == send_packet(s, packet.source_id,
                              LJust(packet.packet_id, DIGEST_FIELD), "ACK", "HIGH",
                              "_handle_received_packet", packet, rx_len)
         IN  IF r.routed THEN [s |-> r.s, routed |-> TRUE]
             ELSE [s |-> ReceivedStored(r.s, packet), routed |-> FALSE]
    ELSE [s |-> ReceivedStored(s, packet), routed |-> FALSE]

\* _forward_packet: [s, routed]
_forward_packet(s, packet, rx_len) ==
    IF now - packet.timestamp > packet.ttl
    THEN [s |-> [s EXCEPT !.packets_dropped = @ + 1], routed |-> FALSE]
    ELSE IF s.node_id \in SeqToSet(packet.route_history)
    THEN [s |-> [s EXCEPT !.packets_dropped = @ + 1], routed |-> FALSE]
    ELSE _route_packet(s, packet, "_forward_packet", packet, rx_len)

\* receive_packet up to its first await or its return:
\* [s, ret, packet]; ret is "None", "packet" or "suspended"
receive_packet(s, packet_data) ==
    LET parsed == _deserialize_packet(packet_data) IN
    IF parsed = None THEN [s |-> s, ret |-> "None", packet |-> None]
    ELSE IF ~is_valid(parsed)
    THEN [s |-> [s EXCEPT !.packets_dropped = @ + 1], ret |-> "None", packet |-> parsed]
    ELSE LET d == _is_duplicate(s, parsed)
             s1 == [s EXCEPT !.duplicate_filter = d.filter] IN
    IF d.dup THEN [s |-> s1, ret |-> "None", packet |-> parsed]
    ELSE LET packet == IF s.node_id \notin SeqToSet(parsed.route_history)
                       THEN [parsed EXCEPT !.route_history = Append(@, s.node_id)]
                       ELSE parsed
             rx_len == Len(packet_data)
             r == CASE packet.packet_type = "ACK" ->
                         [s |-> _handle_ack(s1, packet), routed |-> FALSE]
                    [] packet.packet_type = "NACK" -> _handle_nack(s1, packet, rx_len)
                    [] packet.packet_type = "HEARTBEAT" ->
                         [s |-> _handle_heartbeat(s1, packet), routed |-> FALSE]
                    [] packet.packet_type = "ROUTING_UPDATE" ->
                         [s |-> _handle_routing_update(s1, packet), routed |-> FALSE]
                    [] OTHER ->
                         IF packet.destination_id = s.node_id
                         THEN _handle_received_packet(s1, packet, rx_len)
                         ELSE _forward_packet(s1, packet, rx_len)
         IN  IF r.routed THEN [s |-> r.s, ret |-> "suspended", packet |-> packet]
             ELSE [s |-> receive_done(r.s, rx_len), ret |-> "packet", packet |-> packet]

(***************************************************************************)
(* The ack-timeout flow.                                                   *)
(***************************************************************************)
\* variant: the retry limit is compared with <=
AckTimeoutExpired_extra_retry(s, packet_id) ==
    IF packet_id \notin DOMAIN s.pending_acks
    THEN [s EXCEPT !.timers = Del(@, packet_id)]
    ELSE LET packet == s.pending_acks[packet_id]
             retry_count == packet.retry_count IN
         IF retry_count <= max_retries
         THEN LET retried == [packet EXCEPT !.retry_count = retry_count + 1] IN
              [s EXCEPT !.pending_acks = Put(@, packet_id, retried),
                        !.timers = Put(@, packet_id,
                                       [pc |-> "backoff",
                                        wake |-> now + Pow(2, retry_count),
                                        packet |-> retried, expiry |-> now]),
                        !.expiries = Put(@, packet_id, Get(@, packet_id, 0) + 1)]
         ELSE [s EXCEPT !.pending_acks = Del(@, packet_id),
                        !.timers = Del(@, packet_id),
                        !.failures = Put(@, packet_id, Get(@, packet_id, 0) + 1),
                        !.expiries = Put(@, packet_id, Get(@, packet_id, 0) + 1)]

\* variant: the last retry is given up one expiry early
AckTimeoutExpired_one_short(s, packet_id) ==
    IF packet_id \notin DOMAIN s.pending_acks
    THEN [s EXCEPT !.timers = Del(@, packet_id)]
    ELSE LET packet == s.pending_acks[packet_id]
             retry_count == packet.retry_count IN
         IF retry_count < max_retries - 1
         THEN LET retried == [packet EXCEPT !.retry_count = retry_count + 1] IN
              [s EXCEPT !.pending_acks = Put(@, packet_id, retried),
                        !.timers = Put(@, packet_id,
                                       [pc |-> "backoff",
                                        wake |-> now + Pow(2, retry_count),
                                        packet |-> retried, expiry |-> now]),
                        !.expiries = Put(@, packet_id, Get(@, packet_id, 0) + 1)]
         ELSE [s EXCEPT !.pending_acks = Del(@, packet_id),
                        !.timers = Del(@, packet_id),
                        !.failures = Put(@, packet_id, Get(@, packet_id, 0) + 1),
                        !.expiries = Put(@, packet_id, Get(@, packet_id, 0) + 1)]

\* _handle_ack_timeout after asyncio.sleep(self.ack_timeout), up to its next
\* await or its end
AckTimeoutExpired(s, packet_id) ==
    IF packet_id \notin DOMAIN s.pending_acks
    THEN [s EXCEPT !.timers = Del(@, packet_id)]
    ELSE LET packet == s.pending_acks[packet_id]
             retry_count == packet.retry_count IN
         IF retry_count < max_retries
         THEN LET retried == [packet EXCEPT !.retry_count = retry_count + 1] IN
              [s EXCEPT !.pending_acks = Put(@, packet_id, retried),
                        !.timers = Put(@, packet_id,
                                       [pc |-> "backoff",
                                        wake |-> now + Pow(2, retry_count),
                                        packet |-> retried, expiry |-> now]),
                        !.expiries = Put(@, packet_id, Get(@, packet_id, 0) + 1)]
         ELSE [s EXCEPT !.pending_acks = Del(@, packet_id),
                        !.timers = Del(@, packet_id),
                        !.failures = Put(@, packet_id, Get(@, packet_id, 0) + 1),
                        !.expiries = Put(@, packet_id, Get(@, packet_id, 0) + 1)]

\* the new task of asyncio.create_task(self._handle_ack_timeout(packet_id))
RestartTimer(s, packet) ==
    [s EXCEPT !.timers = Put(@, packet.packet_id,
                             [pc |-> "timeout", wake |-> now + ack_timeout,
                              packet |-> packet, expiry |-> now])]

\* _handle_ack_timeout after asyncio.sleep(2 ** retry_count): _route_packet,
\* and when that returns at once, the restart of the timer
AckTimeoutRetry(s, packet_id) ==
    LET t == s.timers[packet_id]
        logged == [s EXCEPT
                     !.timers = Del(@, packet_id),
                     !.retry_log = Put(@, packet_id,
                                       Append(Get(@, packet_id, <<>>),
                                              now - t.expiry))]
        r == _route_packet(logged, t.packet, "_handle_ack_timeout", None, 0)
    IN  IF r.routed THEN r.s ELSE RestartTimer(r.s, t.packet)

(***************************************************************************)
(* update_routing_table.                                                   *)
(***************************************************************************)
RECURSIVE PutAll(_, _)
PutAll(d, pairs) ==
    IF pairs = <<>> THEN d ELSE PutAll(Put(d, pairs[1][1], pairs[1][2]), Tail(pairs))

\* variant: the table as it is between the loop over the neighbors and the
\* loop over the routes
update_routing_table_neighbors_only(s, topology_data) ==
    LET direct == [i \in 1..Len(topology_data.neighbors) |->
                      <<topology_data.neighbors[i], topology_data.neighbors[i]>>]
    IN  [s EXCEPT !.routing_table = PutAll(EmptyDict, direct)]

\* topology_data: neighbors is a list, routes a list of <<destination, next_hop>>
\* in the order of the dict; next_hop <<>> stands for a missing or empty one
update_routing_table(s, topology_data) ==
    LET direct == [i \in 1..Len(topology_data.neighbors) |->
                      <<topology_data.neighbors[i], topology_data.neighbors[i]>>]
        multi == SelectSeq(topology_data.routes,
                           LAMBDA r : r[1] # s.node_id /\ r[2] # <<>>)
    IN  [s EXCEPT !.routing_table = PutAll(PutAll(EmptyDict, direct), multi)]

\* no route at all, and node C reached through node B
Topologies ==
    { [neighbors |-> <<>>, routes |-> <<>>],
      [neighbors |-> <<NodeC>>,
       routes |-> <<<<NodeC, NodeB>>, <<NodeA, NodeB>>, <<NodeB, <<>>>>>>] }

(***************************************************************************)
(* Packets of the peers.                                                   *)
(***************************************************************************)
PeerPacket(src, dst, type, seq, ts, route, payload) ==
    DeepSpacePacket(PacketId(src, seq, ts), src, dst, type, "NORMAL", payload, seq,
                    ts, route, NoChecksum)

\* a packet damaged after its checksum was computed
Corrupted(p) == [p EXCEPT !.payload = <<0>> \o @]

Fresh == StartTime
Expired == StartTime - DEFAULT_TTL - 1

PeerSeq == [DATA |-> 0, EMERGENCY |-> 1, TIME_SYNC |-> 1, HEARTBEAT |-> 2,
            ROUTING_UPDATE |-> 2, ACK |-> 3, NACK |-> 3]

\* the payload of a routing update that advertises node C by way of node B:
\* b'{"C": "B"}'
RouteAdvert == <<123, 34>> \o NodeC \o <<34, 58, 32, 34>> \o NodeB \o <<34, 125>>

\* what node B sends: packets for this node and packets for node C to be
\* forwarded, fresh and older than the TTL, one that already went through
\* this node, a heartbeat, a routing update, and a damaged packet
PeerPackets ==
    { PeerPacket(NodeB, NodeA, type, PeerSeq[type], Fresh, <<>>, SmallPayload) :
        type \in {"DATA", "EMERGENCY", "TIME_SYNC", "HEARTBEAT"} }
    \cup
    { PeerPacket(NodeB, NodeA, "ROUTING_UPDATE", PeerSeq.ROUTING_UPDATE, Fresh, <<>>,
                 RouteAdvert) }
    \cup
    { PeerPacket(NodeB, NodeC, type, PeerSeq[type], Fresh, <<>>, SmallPayload) :
        type \in {"DATA", "EMERGENCY", "TIME_SYNC"} }
    \cup
    { PeerPacket(NodeB, dst, "DATA", PeerSeq.DATA, Expired, <<>>, SmallPayload) :
        dst \in {NodeA, NodeC} }
    \cup
    { PeerPacket(NodeB, NodeC, "DATA", PeerSeq.DATA, Fresh, <<NodeA>>, SmallPayload),
      Corrupted(PeerPacket(NodeB, NodeA, "DATA", PeerSeq.DATA, Fresh, <<>>,
                           SmallPayload)) }

UnknownId == PacketId(NodeA, MaxSeq + 7, StartTime)

\* ACKs and NACKs of the peer for a pending packet or for an unknown one
PeerReplies ==
    { PeerPacket(NodeB, NodeA, type, PeerSeq[type], Fresh, <<>>,
                 LJust(ref, DIGEST_FIELD)) :
        type \in {"ACK", "NACK"},
        ref \in DOMAIN pending_acks \cup {UnknownId} }

\* bytes too short to hold a header
Junk == <<1, 2, 3>>

(***************************************************************************)
(* SpaceNetwork.  Positions are points of a line, in units of the distance *)
(* light covers in a millisecond (300 km); signal strength and quality are *)
(* in hundredths, latency in ms, link weights in hundredths of a ms,       *)
(* packet loss in thousandths, data sizes in bytes.                        *)
(***************************************************************************)
CommunicationMode == {"deep_space", "inter_satellite", "ground_station",
                      "emergency_beacon"}

\* float('infinity')
Infinity == 1000000000
Plus(a, b) == IF a = Infinity \/ b = Infinity THEN Infinity ELSE a + b

KM_PER_UNIT == 300
\* 10 ** (-(20 * log10(2.4e9) - 147.55) / 20), in millionths
PATH_GAIN == 9943

base_strength ==
    [deep_space |-> 60, inter_satellite |-> 90, ground_station |-> 80,
     emergency_beacon |-> 70]
max_bandwidth ==
    [deep_space |-> 10, inter_satellite |-> 100, ground_station |-> 50,
     emergency_beacon |-> 5]
processing_delay ==
    [deep_space |-> 100, inter_satellite |-> 10, ground_station |-> 50,
     emergency_beacon |-> 20]

_calculate_signal_strength(distance, link_type) ==
    IF distance = 0 THEN base_strength[link_type]
    ELSE Max(10, Min(100, (base_strength[link_type] * PATH_GAIN)
                             \div (distance * KM_PER_UNIT * 1000000)))

_calculate_bandwidth(signal_strength, link_type) ==
    max_bandwidth[link_type] * signal_strength

_calculate_latency(distance, link_type) == distance + processing_delay[link_type]

Abs(x) == IF x < 0 THEN -x ELSE x

NetworkNode(id, position) ==
    [node_id |-> id, position |-> position, status |-> "active", current_load |-> 0,
     priority_level |-> 1]

\* link_type.value
ModeValue ==
    [deep_space |-> <<100, 101, 101, 112, 95, 115, 112, 97, 99, 101>>,
     inter_satellite |->
        <<105, 110, 116, 101, 114, 95, 115, 97, 116, 101, 108, 108, 105, 116, 101>>,
     ground_station |->
        <<103, 114, 111, 117, 110, 100, 95, 115, 116, 97, 116, 105, 111, 110>>,
     emergency_beacon |->
        <<101, 109, 101, 114, 103, 101, 110, 99, 121, 95, 98, 101, 97, 99, 111, 110>>]

\* f"{source_id}-{target_id}-{link_type.value}"
LinkId(source_id, target_id, link_type) ==
    source_id \o Dash \o target_id \o Dash \o ModeValue[link_type]

CommunicationLink(source_id, target_id, link_type, signal_strength, bandwidth, latency) ==
    [link_id |-> LinkId(source_id, target_id, link_type), source_node |-> source_id,
     target_node |-> target_id, link_type |-> link_type, established_at |-> now,
     signal_strength |-> signal_strength, bandwidth |-> bandwidth,
     latency |-> latency, packet_loss |-> 0, quality_score |-> signal_strength]

\* the network object as one record
Network ==
    [nodes |-> nodes, links |-> links, routing_table |-> network_routing_table,
     total_data_transmitted |-> total_data_transmitted,
     network_status |-> network_status,
     emergency_protocols_active |-> emergency_protocols_active]

CommitNetwork(n) ==
    /\ nodes' = n.nodes
    /\ links' = n.links
    /\ network_routing_table' = n.routing_table
    /\ total_data_transmitted' = n.total_data_transmitted
    /\ network_status' = n.network_status
    /\ emergency_protocols_active' = n.emergency_protocols_active
    /\ UNCHANGED <<now, protocol_vars, stats_vars, task_vars, observed_vars,
                   packet_vars, radio_vars>>

NodeIds(n) == {n.nodes[i].node_id : i \in 1..Len(n.nodes)}
NodeIndex(n, id) == CHOOSE i \in 1..Len(n.nodes) : n.nodes[i].node_id = id

\* link.latency * (2 - link.quality_score)
Weight(link) == link.latency * (200 - link.quality_score)

\* next_hop[i][j] is None
NoHop == <<>>

\* _update_routing_table, "Set distances for direct links": the matrices dist
\* and next_hop as functions of <<i, j>>
DirectLinks(n) ==
    LET N == Len(n.nodes)
        between(i, j) ==
            {l \in 1..Len(n.links) :
                /\ n.links[l].source_node = n.nodes[i].node_id
                /\ n.links[l].target_node = n.nodes[j].node_id}
        least(i, j) ==
            CHOOSE l \in between(i, j) :
                \A m \in between(i, j) : Weight(n.links[l]) <= Weight(n.links[m])
    IN  [dist |-> [c \in (1..N) \X (1..N) |->
                     IF c[1] = c[2] THEN 0
                     ELSE IF between(c[1], c[2]) = {} THEN Infinity
                     ELSE Weight(n.links[least(c[1], c[2])])],
         next_hop |-> [c \in (1..N) \X (1..N) |->
                     IF c[1] = c[2] \/ between(c[1], c[2]) = {} THEN NoHop
                     ELSE n.nodes[c[2]].node_id]]

\* "Floyd-Warshall main algorithm": the loops over k, i, j from step on
RECURSIVE FloydWarshall(_, _, _)
FloydWarshall(m, step, N) ==
    IF step >= N * N * N THEN m
    ELSE LET k == (step \div (N * N)) + 1
             i == ((step \div N) % N) + 1
             j == (step % N) + 1
         IN  IF Plus(m.dist[<<i, k>>], m.dist[<<k, j>>]) < m.dist[<<i, j>>]
             THEN FloydWarshall(
                    [dist |-> [m.dist EXCEPT ![<<i, j>>] =
                                  Plus(m.dist[<<i, k>>], m.dist[<<k, j>>])],
                     next_hop |-> [m.next_hop EXCEPT ![<<i, j>>] =
                                  m.next_hop[<<i, k>>]]],
                    step + 1, N)
             ELSE FloydWarshall(m, step + 1, N)

_update_routing_table(n) ==
    LET N == Len(n.nodes)
        m == FloydWarshall(DirectLinks(n), 0, N)
        row(i) ==
            LET targets == {j \in 1..N : i # j /\ m.next_hop[<<i, j>>] # NoHop}
            IN  [t \in {n.nodes[j].node_id : j \in targets} |->
                    m.next_hop[<<i, NodeIndex(n, t)>>]]
    IN  [n EXCEPT !.routing_table =
            [source \in NodeIds(n) |-> row(NodeIndex(n, source))]]

\* an add_node that refuses a registered id but stores the offered object
add_node_overwrite(n, node) ==
    IF node.node_id \in NodeIds(n)
    THEN [n |-> [n EXCEPT !.nodes[NodeIndex(n, node.node_id)] = node], ret |-> FALSE]
    ELSE [n |-> _update_routing_table([n EXCEPT !.nodes = Append(@, node)]),
          ret |-> TRUE]

\* add_node: [n, ret]
add_node(n, node) ==
    IF node.node_id \in NodeIds(n) THEN [n |-> n, ret |-> FALSE]
    ELSE [n |-> _update_routing_table([n EXCEPT !.nodes = Append(@, node)]),
          ret |-> TRUE]

\* self.links[link.link_id] = link
PutLink(links_, link) ==
    IF \E l \in 1..Len(links_) : links_[l].link_id = link.link_id
    THEN [l \in 1..Len(links_) |->
            IF links_[l].link_id = link.link_id THEN link ELSE links_[l]]
    ELSE Append(links_, link)

\* an establish_link that leaves the routing table as it was
establish_link_stale(n, source_id, target_id, link_type) ==
    IF source_id \notin NodeIds(n) \/ target_id \notin NodeIds(n)
    THEN [n |-> n, ret |-> None]
    ELSE LET source_node == n.nodes[NodeIndex(n, source_id)]
             target_node == n.nodes[NodeIndex(n, target_id)]
             distance == Abs(source_node.position - target_node.position)
             signal_strength == _calculate_signal_strength(distance, link_type)
             bandwidth == _calculate_bandwidth(signal_strength, link_type)
             latency == _calculate_latency(distance, link_type)
             link == CommunicationLink(source_id, target_id, link_type,
                                       signal_strength, bandwidth, latency)
         IN  [n |-> [n EXCEPT !.links = PutLink(@, link)], ret |-> link]

\* establish_link: [n, ret], ret the link or None
establish_link(n, source_id, target_id, link_type) ==
    IF source_id \notin NodeIds(n) \/ target_id \notin NodeIds(n)
    THEN [n |-> n, ret |-> None]
    ELSE LET source_node == n.nodes[NodeIndex(n, source_id)]
             target_node == n.nodes[NodeIndex(n, target_id)]
             distance == Abs(source_node.position - target_node.position)
             signal_strength == _calculate_signal_strength(distance, link_type)
             bandwidth == _calculate_bandwidth(signal_strength, link_type)
             latency == _calculate_latency(distance, link_type)
             link == CommunicationLink(source_id, target_id, link_type,
                                       signal_strength, bandwidth, latency)
         IN  [n |-> _update_routing_table([n EXCEPT !.links = PutLink(@, link)]),
              ret |-> link]

\* a relaxation that takes every link to an unvisited node, shorter or not
RECURSIVE Relax_any_link(_, _, _, _, _)
Relax_any_link(n, l, current, unvisited, d) ==
    IF l > Len(n.links) THEN d
    ELSE LET link == n.links[l]
             alt == Plus(d.distances[current], Weight(link))
         IN  IF /\ link.source_node = current
                /\ link.target_node \in unvisited
             THEN Relax_any_link(n, l + 1, current, unvisited,
                        [distances |-> [d.distances EXCEPT ![link.target_node] = alt],
                         previous |-> Put(d.previous, link.target_node, current)])
             ELSE Relax_any_link(n, l + 1, current, unvisited, d)

\* find_optimal_route, "for link in self.links.values()" from link l on:
\* d is [distances, previous]
RECURSIVE Relax(_, _, _, _, _)
Relax(n, l, current, unvisited, d) ==
    IF l > Len(n.links) THEN d
    ELSE LET link == n.links[l]
             alt == Plus(d.distances[current], Weight(link))
         IN  IF /\ link.source_node = current
                /\ link.target_node \in unvisited
                /\ alt < d.distances[link.target_node]
             THEN Relax(n, l + 1, current, unvisited,
                        [distances |-> [d.distances EXCEPT ![link.target_node] = alt],
                         previous |-> Put(d.previous, link.target_node, current)])
             ELSE Relax(n, l + 1, current, unvisited, d)

\* find_optimal_route, "while unvisited": the dicts `previous` the loop can end
\* with; min() over a set takes any of the nodes of least distance
RECURSIVE Dijkstra(_, _, _, _)
Dijkstra(n, target_id, unvisited, d) ==
    IF unvisited = {} THEN {d.previous}
    ELSE LET least == CHOOSE x \in unvisited :
                         \A y \in unvisited : d.distances[x] <= d.distances[y]
             ties == {x \in unvisited : d.distances[x] = d.distances[least]}
         IN  UNION { IF d.distances[current] = Infinity \/ current = target_id
                     THEN {d.previous}
                     ELSE Dijkstra(n, target_id, unvisited \ {current},
                                   Relax(n, 1, current, unvisited \ {current}, d)) :
                     current \in ties }

\* "Reconstruct path"
RECURSIVE PathTo(_, _)
PathTo(previous, current) ==
    IF current \in DOMAIN previous
    THEN Append(PathTo(previous, previous[current]), current)
    ELSE <<current>>

\* find_optimal_route: the set of the routes it can return
find_optimal_route(n, source_id, target_id) ==
    IF source_id \notin NodeIds(n) \/ target_id \notin NodeIds(n) THEN {<<>>}
    ELSE IF source_id = target_id THEN {<<source_id>>}
    ELSE LET distances == [x \in NodeIds(n) |-> IF x = source_id THEN 0 ELSE Infinity]
             ends == Dijkstra(n, target_id, NodeIds(n),
                              [distances |-> distances, previous |-> EmptyDict])
         IN  { IF target_id \notin DOMAIN previous THEN <<>>
               ELSE PathTo(previous, target_id) : previous \in ends }

\* hops that wear the link out without a cap on the packet loss
RECURSIVE Hops_no_cap(_, _, _, _)
Hops_no_cap(n, route, i, data_size) ==
    IF i > Len(route) - 1 THEN [n |-> n, ok |-> TRUE]
    ELSE LET matches == {l \in 1..Len(n.links) :
                            /\ n.links[l].source_node = route[i]
                            /\ n.links[l].target_node = route[i + 1]}
         IN  IF matches = {} THEN [n |-> n, ok |-> FALSE]
             ELSE LET l == CHOOSE x \in matches : \A y \in matches : x <= y
                      n1 == [n EXCEPT !.links[l].packet_loss = @ + 1]
                      n2 == IF route[i] \in NodeIds(n)
                            THEN [n1 EXCEPT
                                    !.nodes[NodeIndex(n, route[i])].current_load =
                                        @ + data_size]
                            ELSE n1
                  IN  Hops_no_cap(n2, route, i + 1, data_size)

\* transmit_data, "for i in range(len(route) - 1)" from hop i on: [n, ok]
RECURSIVE Hops(_, _, _, _)
Hops(n, route, i, data_size) ==
    IF i > Len(route) - 1 THEN [n |-> n, ok |-> TRUE]
    ELSE LET matches == {l \in 1..Len(n.links) :
                            /\ n.links[l].source_node = route[i]
                            /\ n.links[l].target_node = route[i + 1]}
         IN  IF matches = {} THEN [n |-> n, ok |-> FALSE]
             ELSE LET l == CHOOSE x \in matches : \A y \in matches : x <= y
                      n1 == [n EXCEPT !.links[l].packet_loss = Min(@ + 1, 100)]
                      n2 == IF route[i] \in NodeIds(n)
                            THEN [n1 EXCEPT
                                    !.nodes[NodeIndex(n, route[i])].current_load =
                                        @ + data_size]
                            ELSE n1
                  IN  Hops(n2, route, i + 1, data_size)

\* transmit_data after find_optimal_route returned route: [n, ret]
transmit_data(n, route, data_size) ==
    IF route = <<>> THEN [n |-> n, ret |-> FALSE]
    ELSE LET h == Hops(n, route, 1, data_size)
         IN  IF ~h.ok THEN [n |-> h.n, ret |-> FALSE]
             ELSE [n |-> [h.n EXCEPT !.total_data_transmitted = @ + data_size],
                   ret |-> TRUE]

\* activate_emergency_protocol, "for node_id in affected_nodes: for other_id
\* in self.nodes": the establish_link calls from the i-th affected node and
\* the j-th registered node on
RECURSIVE Beacons(_, _, _, _)
Beacons(n, affected_nodes, i, j) ==
    IF i > Len(affected_nodes) THEN n
    ELSE IF j > Len(n.nodes) THEN Beacons(n, affected_nodes, i + 1, 1)
    ELSE LET affected_id == affected_nodes[i]
             other_id == n.nodes[j].node_id
         IN  IF other_id # affected_id /\ other_id \notin SeqToSet(affected_nodes)
             THEN Beacons(establish_link(n, affected_id, other_id, "emergency_beacon").n,
                          affected_nodes, i, j + 1)
             ELSE Beacons(n, affected_nodes, i, j + 1)

activate_emergency_protocol(n, affected_nodes) ==
    LET n1 == [n EXCEPT !.emergency_protocols_active = TRUE,
                        !.network_status = "emergency"]
        n2 == [n1 EXCEPT !.nodes =
                  [k \in 1..Len(n1.nodes) |->
                      IF n1.nodes[k].node_id \in SeqToSet(affected_nodes)
                      THEN [n1.nodes[k] EXCEPT !.priority_level = 10]
                      ELSE n1.nodes[k]]]
    IN  Beacons(n2, affected_nodes, 1, 1)

RECURSIVE Sum(_, _)
Sum(f, S) == IF S = {} THEN 0 ELSE LET x == CHOOSE x \in S : TRUE
                                   IN  f[x] + Sum(f, S \ {x})

\* monitor_network_health: the metrics it returns; availabilities in percent
monitor_network_health(n) ==
    LET active_nodes == Cardinality({k \in 1..Len(n.nodes) : n.nodes[k].status = "active"})
        total_nodes == Len(n.nodes)
        active_links == Cardinality({l \in 1..Len(n.links) :
                                        now - n.links[l].established_at < link_timeout})
        total_links == Len(n.links)
        L == 1..Len(n.links)
    IN  [network_status |-> n.network_status,
         active_nodes |-> active_nodes,
         total_nodes |-> total_nodes,
         node_availability |->
            IF total_nodes > 0 THEN (100 * active_nodes) \div total_nodes ELSE 0,
         active_links |-> active_links,
         total_links |-> total_links,
         link_availability |->
            IF total_links > 0 THEN (100 * active_links) \div total_links ELSE 0,
         avg_signal_strength |->
            IF total_links > 0
            THEN Sum([l \in L |-> n.links[l].signal_strength], L) \div total_links
            ELSE 0,
         avg_latency_ms |->
            IF total_links > 0
            THEN Sum([l \in L |-> n.links[l].latency], L) \div total_links ELSE 0,
         total_bandwidth_mbps |-> Sum([l \in L |-> n.links[l].bandwidth], L),
         data_transmitted |-> n.total_data_transmitted,
         emergency_active |-> n.emergency_protocols_active]

\* the nodes offered to add_node: two at the same place and one a
\* light-millisecond away
NetworkNodes == {NetworkNode(NodeA, 0), NetworkNode(NodeB, 0), NetworkNode(NodeC, 1)}
LinkTypes == {"inter_satellite", "deep_space"}
\* the pairs offered to establish_link: a chain, a shortcut and a way back
LinkEnds == {<<NodeA, NodeB>>, <<NodeB, NodeC>>, <<NodeA, NodeC>>, <<NodeC, NodeA>>}
\* len(json.dumps(data).encode()) of {}
DataSizes == {2}
\* an id that is never registered
NodeZ == <<90>>
\* the routes asked for: along the chain, against it, to the node itself,
\* from and to an id that is not registered
QueryPairs == {<<NodeA, NodeC>>, <<NodeB, NodeC>>, <<NodeC, NodeA>>, <<NodeA, NodeA>>, <<NodeZ, NodeC>>, <<NodeA, NodeZ>>}
\* another node object with the id of node B, out of service
Replacement == [NetworkNode(NodeB, 1) EXCEPT !.status = "offline"]
\* the nodes of a chain with a shortcut, and the pairs linked in it
ChainEnds == {<<NodeA, NodeB>>, <<NodeB, NodeC>>, <<NodeA, NodeC>>}
\* the lists of affected nodes: two nodes, and one node with an id that is not
\* registered
AffectedLists == {<<NodeB, NodeA>>, <<NodeC, NodeZ>>}
\* nodes whose ids hold the separator of the link id
NodeAB == NodeA \o Dash \o NodeB
NodeBC == NodeB \o Dash \o NodeC
DashedNodes == {NetworkNode(NodeA, 0), NetworkNode(NodeAB, 0), NetworkNode(NodeBC, 1),
                NetworkNode(NodeC, 1)}
DashedLists == {<<NodeA, NodeAB>>, <<NodeC>>}

(***************************************************************************)
(* Actions.                                                                *)
(***************************************************************************)
\* event holds a call of the public interface and what it returned, from the
\* step that makes the call until the caller has taken the result
Event(op, arg, size, ret) == [op |-> op, arg |-> arg, size |-> size, ret |-> ret]
NoEvent == Event("none", None, 0, "-")

\* await protocol.send_packet(destination, payload, packet_type), as long as
\* fewer than limit packets have been built
SendPacketUpTo(limit) ==
    /\ event = NoEvent
    /\ \E destination \in {NodeB, NodeC}, payload \in {SmallPayload, OversizePayload},
       packet_type \in {"DATA", "EMERGENCY"} :
         /\ Len(payload) <= max_packet_size => sequence_counter < limit
         /\ LET r == send_packet(Self, destination, payload, packet_type,
                                 "NORMAL", "send_packet", None, 0)
            IN  /\ Commit(r.s)
                /\ event' = Event("send_packet", r.packet, Len(payload),
                                  IF r.routed THEN "suspended" ELSE "False")
         /\ UNCHANGED now

SendPacket == SendPacketUpTo(MaxSeq)

\* send_heartbeat, "for neighbor_id in self.neighbor_nodes" over the
\* neighbors still to come: the send_packet calls that asyncio.gather starts
\* run one after the other, each up to its await
RECURSIVE Heartbeats(_, _, _)
Heartbeats(s, neighbors, heartbeat_data) ==
    IF neighbors = <<>> THEN s
    ELSE Heartbeats(send_packet(s, Head(neighbors), heartbeat_data, "HEARTBEAT",
                                "LOW", "send_heartbeat", None, 0).s,
                    Tail(neighbors), heartbeat_data)

\* the lists a set can be iterated as
Orders(S) ==
    {order \in [1..Cardinality(S) -> S] : \A x \in S : \E i \in DOMAIN order : order[i] = x}

\* await protocol.send_heartbeat(); with no neighbor it returns True at once
SendHeartbeat ==
    /\ event = NoEvent
    /\ neighbor_nodes # EmptyDict => sequence_counter < MaxSeq
    /\ \E neighbors \in Orders(DOMAIN neighbor_nodes) :
         /\ Commit(Heartbeats(Self, neighbors, PackDouble(now)))
         /\ event' = Event("send_heartbeat", None, Len(neighbors),
                           IF neighbors = <<>> THEN "True" ELSE "suspended")
    /\ UNCHANGED now

\* await protocol.receive_packet(packet_data), packet_data the bytes a peer
\* serialized
ReceivePacket ==
    /\ event = NoEvent
    /\ \E p \in PeerPackets :
         LET r == receive_packet(Self, serialize(p))
         IN  /\ Commit(r.s)
             /\ event' = Event("receive_packet", p, Len(serialize(p)), r.ret)
             /\ UNCHANGED now

\* await protocol.receive_packet(packet_data), packet_data an ACK or a NACK
ReceiveReply ==
    /\ event = NoEvent
    /\ \E p \in PeerReplies :
         LET r == receive_packet(Self, serialize(p))
         IN  /\ Commit(r.s)
             /\ event' = Event("receive_packet", p, Len(serialize(p)), r.ret)
             /\ UNCHANGED now

\* await protocol.receive_packet(packet_data), packet_data an ACK or a NACK
\* for a packet whose ack-timeout flow is in its backoff sleep
ReceiveReplyInBackoff ==
    /\ event = NoEvent
    /\ \E p \in PeerReplies :
         LET r == receive_packet(Self, serialize(p))
             ref == ReferencedId(p.payload)
         IN  /\ ref \in DOMAIN timers
             /\ timers[ref].pc = "backoff"
             /\ Commit([r.s EXCEPT !.acks_in_backoff =
                                     IF p.packet_type = "ACK" THEN @ \cup {ref} ELSE @])
             /\ event' = Event("receive_packet", p, Len(serialize(p)), r.ret)
             /\ UNCHANGED now

ReceiveJunk ==
    /\ event = NoEvent
    /\ LET r == receive_packet(Self, Junk)
       IN  /\ Commit(r.s)
           /\ event' = Event("receive_junk", None, Len(Junk), r.ret)
           /\ UNCHANGED now

\* the caller takes the result of its call
Return ==
    /\ event.op # "none"
    /\ event' = NoEvent
    /\ Commit(Self)
    /\ UNCHANGED now

\* the asyncio.sleep of _transmit_to_neighbor ends: the transmission, and the
\* rest of the call that awaited it
TransmitDone ==
    /\ event = NoEvent
    /\ \E t \in inflight :
      LET s0 == [Self EXCEPT !.inflight = @ \ {t}]
          s1 == _transmit_to_neighbor(s0, t.neighbor, t.packet, t.caller)
      IN  /\ CASE t.caller = "send_packet" ->
                    /\ Commit(send_packet_done(s1, t.packet))
                    /\ event' = Event("send_packet_return", t.packet,
                                      Len(t.packet.payload), "True")
               [] t.caller = "_handle_received_packet" ->
                    /\ Commit(receive_done(
                                ReceivedStored(send_packet_done(s1, t.packet), t.rx),
                                t.rx_len))
                    /\ event' = Event("receive_packet_return", t.rx, t.rx_len,
                                      "packet")
               [] t.caller \in {"_handle_nack", "_forward_packet"} ->
                    /\ Commit(receive_done(s1, t.rx_len))
                    /\ event' = Event("receive_packet_return", t.rx, t.rx_len,
                                      "packet")
               [] t.caller = "_handle_ack_timeout" ->
                    /\ Commit(RestartTimer(s1, t.packet))
                    /\ UNCHANGED event
               [] t.caller = "send_heartbeat" ->
                    /\ Commit(send_packet_done(s1, t.packet))
                    /\ UNCHANGED event
          /\ UNCHANGED now

\* asyncio.sleep(self.ack_timeout) of a timeout flow ends
TimeoutExpires ==
    \E packet_id \in DOMAIN timers :
      /\ event = NoEvent
      /\ timers[packet_id].pc = "timeout"
      /\ now >= timers[packet_id].wake
      /\ Commit(AckTimeoutExpired(Self, packet_id))
      /\ UNCHANGED event
      /\ UNCHANGED now

\* asyncio.sleep(2 ** retry_count) of a timeout flow ends
BackoffEnds ==
    \E packet_id \in DOMAIN timers :
      /\ event = NoEvent
      /\ timers[packet_id].pc = "backoff"
      /\ now >= timers[packet_id].wake
      /\ Commit([AckTimeoutRetry(Self, packet_id)
                   EXCEPT !.acks_in_backoff = @ \ {packet_id}])
      /\ UNCHANGED event
      /\ UNCHANGED now

\* await protocol.update_routing_table(topology_data)
UpdateRoutingTable ==
    \E topology_data \in Topologies :
      /\ event = NoEvent
      /\ Commit(update_routing_table(Self, topology_data))
      /\ UNCHANGED event
      /\ UNCHANGED now

Wakes == {timers[p].wake : p \in DOMAIN timers}
NextWake == CHOOSE w \in Wakes : \A v \in Wakes : w <= v

\* the event loop sleeps until the next timer is due
WaitForTimer ==
    /\ event = NoEvent
    /\ inflight = {}
    /\ Wakes # {}
    /\ NextWake > now
    /\ now' = NextWake
    /\ UNCHANGED event
    /\ Commit(Self)

\* time passes without a timer becoming due
IdleSteps == {packet_cache_duration, packet_cache_duration + 1}

Idle ==
    \E d \in IdleSteps :
      /\ now + d <= StartTime + Horizon
      /\ inflight = {}
      /\ Wakes # {} => now + d < NextWake
      /\ event = NoEvent
      /\ now' = now + d
      /\ UNCHANGED event
      /\ Commit(Self)

\* await network.add_node(node), node one of the offered ones
AddNodeOf(offered) ==
    /\ event = NoEvent
    /\ \E node \in offered :
         LET r == add_node(Network, node)
         IN  /\ CommitNetwork(r.n)
             /\ event' = Event("add_node", node, 0, IF r.ret THEN "True" ELSE "False")

AddNode == AddNodeOf(NetworkNodes)

\* await network.establish_link(source_id, target_id, link_type), as long as
\* the network has fewer than limit links
EstablishLinkOf(ends_offered, types_offered, limit) ==
    /\ event = NoEvent
    /\ Len(links) < limit
    /\ \E ends \in ends_offered, link_type \in types_offered :
         LET r == establish_link(Network, ends[1], ends[2], link_type)
         IN  /\ CommitNetwork(r.n)
             /\ event' = Event("establish_link", r.ret, 0,
                               IF r.ret = None THEN "None" ELSE "link")

EstablishLink == EstablishLinkOf(LinkEnds, LinkTypes, MaxLinks)

\* await network.find_optimal_route(source_id, target_id)
FindOptimalRoute ==
    /\ event = NoEvent
    /\ \E pair \in QueryPairs :
         LET source_id == pair[1]
             target_id == pair[2]
         IN
         \E route \in find_optimal_route(Network, source_id, target_id) :
              /\ CommitNetwork(Network)
              /\ event' = Event("find_optimal_route",
                                [source_id |-> source_id, target_id |-> target_id,
                                 route |-> route],
                                0, IF route = <<>> THEN "[]" ELSE "route")

\* await network.transmit_data(source_id, target_id, data), as long as the
\* network has carried no more than limit bytes
TransmitDataOf(pairs, limit) ==
    /\ event = NoEvent
    /\ \E pair \in pairs, data_size \in DataSizes :
         /\ total_data_transmitted + data_size <= limit
         /\ \E route \in find_optimal_route(Network, pair[1], pair[2]) :
              LET r == transmit_data(Network, route, data_size)
              IN  /\ CommitNetwork(r.n)
                  /\ event' = Event("transmit_data",
                                    [source_id |-> pair[1], target_id |-> pair[2],
                                     route |-> route],
                                    data_size, IF r.ret THEN "True" ELSE "False")

TransmitData == TransmitDataOf({NodeA, NodeB, NodeC} \X {NodeA, NodeB, NodeC}, MaxData)

\* await network.activate_emergency_protocol(emergency_type, affected_nodes)
ActivateEmergencyOf(lists) ==
    /\ event = NoEvent
    /\ \E affected_nodes \in lists :
         /\ CommitNetwork(activate_emergency_protocol(Network, affected_nodes))
         /\ event' = Event("activate_emergency_protocol", affected_nodes, 0, "None")

ActivateEmergency == ActivateEmergencyOf(AffectedLists)

\* await network.monitor_network_health()
MonitorNetworkHealth ==
    /\ event = NoEvent
    /\ CommitNetwork(Network)
    /\ event' = Event("monitor_network_health", monitor_network_health(Network), 0,
                      "metrics")

(***************************************************************************)
(* A packet object on its own: built as send_packet builds it, rebuilt by   *)
(* a receiver from bytes that changed on the way, serialized and parsed.    *)
(***************************************************************************)
\* a node id of 18 characters: with "_0_1700000000.0" the packet id has 33
LongNode == [i \in 1..18 |-> 65]

\* DeepSpacePacket(**fields, checksum=checksum): the constructor as
\* _deserialize_packet calls it
Rebuilt(p, checksum) ==
    DeepSpacePacket(p.packet_id, p.source_id, p.destination_id, p.packet_type,
                    p.priority, p.payload, p.sequence_number, p.timestamp,
                    p.route_history, checksum)

\* the fields a receiver can find where the sender wrote those of p: one
\* field changed, the last character of the packet id moved to the front of
\* the source id among the changes
Altered(p, q) ==
    LET changes ==
          { [field |-> "packet_id",
             to |-> [p EXCEPT !.packet_id = SubSeq(@, 1, Len(@) - 1)]],
            [field |-> "source_id",
             to |-> [p EXCEPT !.source_id = <<q.packet_id[Len(q.packet_id)]>> \o @]],
            [field |-> "destination_id", to |-> [p EXCEPT !.destination_id = NodeC]],
            [field |-> "packet_type", to |-> [p EXCEPT !.packet_type = "EMERGENCY"]],
            [field |-> "priority", to |-> [p EXCEPT !.priority = "HIGH"]],
            [field |-> "payload", to |-> [p EXCEPT !.payload = <<NUL>> \o @]],
            [field |-> "sequence_number",
             to |-> [p EXCEPT !.sequence_number = @ + 1]],
            [field |-> "timestamp", to |-> [p EXCEPT !.timestamp = @ + 1]] }
    IN  {c.to : c \in {c \in changes : p[c.field] = q[c.field]}}

\* packet = DeepSpacePacket(...) of send_packet, at a node of any id
NewPacket ==
    \E node \in {NodeA, LongNode}, packet_type \in {"DATA", "ACK"},
       payload \in {<<>>, SmallPayload}, sequence_number \in 0..MaxSeq :
      /\ sample = Unset
      /\ sample' = DeepSpacePacket(PacketId(node, sequence_number, now), node, NodeB,
                                   packet_type, "NORMAL", payload, sequence_number,
                                   now, <<>>, NoChecksum)
      /\ sealed' = sample'
      /\ encoded' = Unset
      /\ decoded' = Unset
      /\ UNCHANGED <<now, protocol_vars, stats_vars, task_vars, observed_vars,
                     network_vars, radio_vars, event>>

\* a receiver builds the packet from bytes in which a field has changed
Corrupt ==
    /\ sample # Unset
    /\ \E p \in Altered(sample, sealed) :
         sample' = Rebuilt(p, sample.checksum)
    /\ encoded' = Unset
    /\ decoded' = Unset
    /\ UNCHANGED <<sealed, now, protocol_vars, stats_vars, task_vars, observed_vars,
                   network_vars, radio_vars, event>>

\* packet.route_history.append(self.node_id) of receive_packet
AppendHop ==
    /\ sample # Unset
    /\ Len(sample.route_history) < MaxHops
    /\ \E hop \in {NodeA, NodeC} :
         /\ hop \notin SeqToSet(sample.route_history)
         /\ sample' = [sample EXCEPT !.route_history = Append(@, hop)]
    /\ encoded' = Unset
    /\ decoded' = Unset
    /\ UNCHANGED <<sealed, now, protocol_vars, stats_vars, task_vars, observed_vars,
                   network_vars, radio_vars, event>>

\* the id of the i-th node a packet passes: "R0", "R1", ...
Relay(i) == <<82>> \o Digits(i)

\* packet.route_history.append(self.node_id) of receive_packet at one node
\* after the other of a path
RelayHop ==
    /\ sample # Unset
    /\ Len(sample.route_history) < MaxRelays
    /\ sample' = [sample EXCEPT !.route_history = Append(@, Relay(Len(@)))]
    /\ encoded' = Unset
    /\ decoded' = Unset
    /\ UNCHANGED <<sealed, now, protocol_vars, stats_vars, task_vars, observed_vars,
                   network_vars, radio_vars, event>>

\* packet.serialize()
Serialize ==
    /\ sample # Unset
    /\ encoded = Unset
    /\ encoded' = serialize(sample)
    /\ UNCHANGED <<sample, sealed, decoded, now, protocol_vars, stats_vars,
                   task_vars, observed_vars, network_vars, radio_vars, event>>

\* self._deserialize_packet(packet_data)
Deserialize ==
    /\ encoded # Unset
    /\ decoded = Unset
    /\ decoded' = _deserialize_packet(encoded)
    /\ UNCHANGED <<sample, sealed, encoded, now, protocol_vars, stats_vars,
                   task_vars, observed_vars, network_vars, radio_vars, event>>

(***************************************************************************)
(* MultibandRadio.  Quantities are whole numbers of a fixed unit: decibels *)
(* in tenths (powers and path losses in hundredths), bit error rates in    *)
(* 1e-9, the quality factors in thousandths, link_quality_score in 1/3000  *)
(* (the mean of three factors is their sum over 3), data rates in 1280     *)
(* bit/s, interference levels in hundredths, Doppler shifts in Hz.         *)
(***************************************************************************)
\* FrequencyBand, in the order of the enum
FrequencyBand == <<"MICROWAVE", "MILLIMETER_WAVE", "TERAHERTZ", "OPTICAL">>

\* band.name
BandName(band) ==
    CASE band = "MICROWAVE" -> <<77, 73, 67, 82, 79, 87, 65, 86, 69>>
      [] band = "MILLIMETER_WAVE" ->
           <<77, 73, 76, 76, 73, 77, 69, 84, 69, 82, 95, 87, 65, 86, 69>>
      [] band = "TERAHERTZ" -> <<84, 69, 82, 65, 72, 69, 82, 84, 90>>
      [] band = "OPTICAL" -> <<79, 80, 84, 73, 67, 65, 76>>

\* self.min_snr_threshold = 10.0, in tenths of a dB
min_snr_threshold == 100
\* self.max_acceptable_ber = 1e-6, in 1e-9
max_acceptable_ber == 1000
\* self.link_quality_threshold = 0.7, in 1/3000
link_quality_threshold == 2100
\* the 0.5 of _adapt_transmission_parameters, in 1/3000
poor_quality == 1500
\* a quality of 1.0, in 1/3000
FullQuality == 3000

\* MultibandRadio(supported_bands)
MultibandRadio(supported_bands) ==
    [supported_bands |-> supported_bands,
     active_links |-> <<>>,
     spectrum_sensing_data |-> EmptyDict,
     throughput_history |-> <<>>]

\* ChannelConditions(...)
ChannelConditions(snr, ber, loss, multipath, doppler, interference, weather, quality) ==
    [signal_to_noise_ratio |-> snr,
     bit_error_rate |-> ber,
     atmospheric_loss |-> loss,
     multipath_fading |-> multipath,
     doppler_shift |-> doppler,
     interference_level |-> interference,
     weather_impact |-> weather,
     link_quality_score |-> quality]

\* CommunicationLink(...) of multiband_radio.py
RadioLink(link_id, source, destination, band, modulation, data_rate, power_level, gain) ==
    [link_id |-> link_id,
     source_node |-> source,
     destination_node |-> destination,
     frequency_band |-> band,
     modulation |-> modulation,
     data_rate |-> data_rate,
     power_level |-> power_level,
     antenna_gain |-> gain,
     is_active |-> TRUE,
     channel_conditions |-> None,
     quality_history |-> <<>>]

\* the values np.random draws in one _assess_channel_conditions call
Draw(snr, ber, loss, weather, doppler, interference) ==
    [snr |-> snr, ber |-> ber, loss |-> loss, weather |-> weather,
     multipath |-> 10, doppler |-> doppler, interference |-> interference]

\* the weather-adjusted loss and signal-to-noise ratio
WeatherLoss(band, d) ==
    IF band \in {"MILLIMETER_WAVE", "TERAHERTZ"} /\ d.weather \in {"rain", "storm"}
    THEN d.loss * 3
    ELSE IF band = "OPTICAL" /\ d.weather \in {"cloudy", "rain", "storm"}
         THEN d.loss * 10
         ELSE d.loss

WeatherSnr(band, d) ==
    IF band \in {"MILLIMETER_WAVE", "TERAHERTZ"} /\ d.weather \in {"rain", "storm"}
    THEN (d.snr * 5) \div 10
    ELSE IF band = "OPTICAL" /\ d.weather \in {"cloudy", "rain", "storm"}
         THEN d.snr \div 10
         ELSE d.snr

\* the sum of the three factors without their min(1.0, ...)
QualityScore_uncapped(snr, ber, loss) ==
    snr * 5 + 1000000 \div ber + 100000 \div loss

\* snr_factor + ber_factor + loss_factor, each min(1.0, ...) in thousandths
QualityScore(snr, ber, loss) ==
    Min(1000, snr * 5) + Min(1000, 1000000 \div ber) + Min(1000, 100000 \div loss)

\* self._assess_channel_conditions(link), with the draws d
_assess_channel_conditions(link, d) ==
    LET snr == WeatherSnr(link.frequency_band, d)
        loss == WeatherLoss(link.frequency_band, d)
    IN  ChannelConditions(snr, d.ber, loss, d.multipath, d.doppler, d.interference,
                          d.weather, QualityScore(snr, d.ber, loss))

\* self._select_modulation(band, qos_requirements); max_ber in 1e-10
_select_modulation(band, qos) ==
    LET required_ber == Get(qos, "max_ber", 10000)
        required_mbps == Get(qos, "bandwidth_mbps", 10)
    IN  IF band \in {"MILLIMETER_WAVE", "TERAHERTZ", "OPTICAL"}
        THEN IF required_ber < 10 THEN "QPSK"
             ELSE IF required_mbps > 100 THEN "QAM64"
             ELSE "QAM16"
        ELSE IF required_ber < 10 THEN "BPSK" ELSE "QPSK"

\* self._get_antenna_gain(band), in dBi
_get_antenna_gain(band) ==
    CASE band = "MICROWAVE" -> 20
      [] band = "MILLIMETER_WAVE" -> 30
      [] band = "TERAHERTZ" -> 40
      [] band = "OPTICAL" -> 50

\* self._get_band_bandwidth(band), in 1280 Hz
_get_band_bandwidth(band) ==
    CASE band = "MICROWAVE" -> 78125
      [] band = "MILLIMETER_WAVE" -> 781250
      [] band = "TERAHERTZ" -> 7812500
      [] band = "OPTICAL" -> 78125000

\* self._get_spectral_efficiency(modulation), in bits/Hz
_get_spectral_efficiency(modulation) ==
    CASE modulation = "BPSK" -> 1
      [] modulation = "QPSK" -> 2
      [] modulation = "QAM16" -> 4
      [] modulation = "QAM64" -> 6

\* snr_requirements of _calculate_link_budget, in dB
snr_requirements(modulation) ==
    CASE modulation = "BPSK" -> 10
      [] modulation = "QPSK" -> 13
      [] modulation = "QAM16" -> 18
      [] modulation = "QAM64" -> 24

\* path_loss_db at the default distance of 1000 km, in hundredths of a dB
path_loss_db(band) ==
    CASE band = "MICROWAVE" -> 17606
      [] band = "MILLIMETER_WAVE" -> 19680
      [] band = "TERAHERTZ" -> 21680
      [] band = "OPTICAL" -> 26726

\* self._calculate_link_budget(band, modulation, qos_requirements)
_calculate_link_budget(band, modulation) ==
    [power_level |-> snr_requirements(modulation) * 100 + path_loss_db(band)
                       - _get_antenna_gain(band) * 100,
     data_rate |-> _get_band_bandwidth(band) * _get_spectral_efficiency(modulation)]

\* f"{source}-{destination}-{band.name}"
RadioLinkId(source, destination, band) ==
    source \o Dash \o destination \o Dash \o BandName(band)

RadioLinkIds(r) == {r.active_links[i].link_id : i \in 1..Len(r.active_links)}
RadioLinkIndex(r, id) ==
    CHOOSE i \in 1..Len(r.active_links) : r.active_links[i].link_id = id

\* the comparison of establish_link that admits a link
Admits(quality) == quality > link_quality_threshold

\* self.establish_link(source, destination, band, qos_requirements), where the
\* channel assessment draws d
radio_establish_link(r, source, destination, band, qos, d) ==
    LET link_id == RadioLinkId(source, destination, band)
    IN  IF link_id \in RadioLinkIds(r)
        THEN [r |-> r, ret |-> r.active_links[RadioLinkIndex(r, link_id)]]
        ELSE LET modulation == _select_modulation(band, qos)
                 budget == _calculate_link_budget(band, modulation)
                 created == RadioLink(link_id, source, destination, band, modulation,
                                      budget.data_rate, budget.power_level,
                                      _get_antenna_gain(band))
                 link == [created EXCEPT
                            !.channel_conditions = _assess_channel_conditions(created, d)]
             IN  IF Admits(link.channel_conditions.link_quality_score)
                 THEN [r |-> [r EXCEPT !.active_links = Append(@, link)], ret |-> link]
                 ELSE [r |-> r, ret |-> None]

\* the radio's state changes, everything else stays
CommitRadio(r) ==
    /\ radio' = r
    /\ UNCHANGED <<now, protocol_vars, stats_vars, task_vars, observed_vars,
                   network_vars, packet_vars>>

\* radio = MultibandRadio(supported_bands)
NewRadioOf(band_lists) ==
    /\ radio = Unset
    /\ \E supported_bands \in band_lists :
         CommitRadio(MultibandRadio(supported_bands))
    /\ UNCHANGED <<transmission, radio_uses, event>>

\* the draws of the channel assessments
ClearDraws == {Draw(snr, ber, 25, "clear", 0, 0) : snr \in {140, 200}, ber \in {1, 2500}}
WeatherDraws == {Draw(200, 1, 25, w, 0, 0) : w \in {"cloudy", "rain", "storm"}}
QosSamples == {EmptyDict, Put(EmptyDict, "bandwidth_mbps", 200), Put(EmptyDict, "max_ber", 1)}

\* await radio.establish_link(source, destination, band, qos_requirements)
RadioEstablishLinkOf(destinations, bands, requirements, draws, limit) ==
    /\ radio # Unset
    /\ event.op = "none"
    /\ Len(radio.active_links) < limit
    /\ \E destination \in destinations, band \in bands, qos \in requirements, d \in draws :
         LET res == radio_establish_link(radio, NodeA, destination, band, qos, d)
             link_id == RadioLinkId(NodeA, destination, band)
         IN  /\ CommitRadio(res.r)
             /\ event' = Event("radio_establish_link",
                               [link_id |-> link_id,
                                band |-> band,
                                existed |-> link_id \in RadioLinkIds(radio),
                                assessed |-> _assess_channel_conditions(
                                               [frequency_band |-> band], d),
                                link |-> res.ret],
                               0, IF res.ret = None THEN "None" ELSE "link")
    /\ UNCHANGED <<transmission, radio_uses>>

(***************************************************************************)
(* Band selection.  Occupancy and interference of a band are in tenths,    *)
(* bandwidths in MHz, and a band score is in 1/ScoreUnit.                  *)
(***************************************************************************)
\* a score of 1.0: the product of two factors in tenths, one in 1/3000,
\* two in tenths and one in halves
ScoreUnit == 60000000

\* self._measure_spectrum_occupancy(band, duration), drawing this occupancy
\* and interference
_measure_spectrum_occupancy(occupancy, interference) ==
    [occupancy |-> occupancy,
     interference |-> interference,
     signal_quality |-> 8,
     available_bandwidth |-> (10 - occupancy) * 10]

\* the samples sense_spectrum keeps of a band
history_limit == 100

\* the history that loses its newest sample when it is full
Sensed_newest_evicted(history, occupancy) ==
    IF Len(history) >= history_limit THEN history ELSE Append(history, occupancy)

\* the history of one band after self.spectrum_sensing_data[band.name].append
\* and the pop(0) that keeps 100 samples
Sensed(history, occupancy) ==
    LET appended == Append(history, occupancy)
    IN  IF Len(appended) > history_limit THEN Tail(appended) ELSE appended

\* the loop of sense_spectrum over the first n supported bands, measured
\* giving the measurement of each
RECURSIVE SenseBands(_, _, _)
SenseBands(r, measured, n) ==
    IF n = 0 THEN r
    ELSE LET before == SenseBands(r, measured, n - 1)
             band == r.supported_bands[n]
             history == Get(before.spectrum_sensing_data, band, <<>>)
         IN  [before EXCEPT !.spectrum_sensing_data =
                Put(@, band, Sensed(history, measured[band].occupancy))]

\* self.sense_spectrum()
sense_spectrum(r, measured) ==
    [r |-> SenseBands(r, measured, Len(r.supported_bands)),
     ret |-> [band \in SeqToSet(r.supported_bands) |-> measured[band]]]

\* TransmissionRequest(...)
TransmissionRequest(destination, qos_requirements, preferred_bands) ==
    [destination |-> destination,
     qos_requirements |-> qos_requirements,
     preferred_bands |-> preferred_bands]

\* the weather factor of _calculate_band_score, in tenths
WeatherFactor(band, weather) ==
    IF weather \in {"rain", "storm"}
    THEN IF band \in {"MILLIMETER_WAVE", "TERAHERTZ"} THEN 3
         ELSE IF band = "OPTICAL" THEN 1
         ELSE 10
    ELSE 10

\* score before the final max(0.0, min(1.0, score))
RawBandScore(band, req, spectrum_info, conditions) ==
    LET qos == req.qos_requirements
        availability == (10 - spectrum_info.occupancy) * (10 - spectrum_info.interference)
        channel == IF conditions = None THEN FullQuality * 10
                   ELSE conditions.link_quality_score
                           * WeatherFactor(band, conditions.weather_impact)
        bandwidth == IF spectrum_info.available_bandwidth >= Get(qos, "bandwidth_mbps", 10)
                     THEN 12 ELSE 5
        latency == IF band = "OPTICAL" /\ Get(qos, "latency_ms", 100) < 10
                   THEN 3 ELSE 2
    IN  availability * channel * bandwidth * latency

\* self._calculate_band_score(band, transmission_req, spectrum_info, channel_conditions)
_calculate_band_score(band, req, spectrum_info, conditions) ==
    Max(0, Min(ScoreUnit, RawBandScore(band, req, spectrum_info, conditions)))

\* the bands select_optimal_band scores, in the order of band_scores
Candidates(r, req) ==
    SelectSeq(r.supported_bands,
              LAMBDA band : \/ band \in SeqToSet(req.preferred_bands)
                            \/ req.preferred_bands = <<>>)

\* the choice of a tie that ends the list instead of the one that starts it
optimal_band_last(candidates, band_scores) ==
    candidates[CHOOSE i \in 1..Len(candidates) :
                 /\ \A j \in 1..Len(candidates) :
                      band_scores[candidates[j]] <= band_scores[candidates[i]]
                 /\ \A j \in (i + 1)..Len(candidates) :
                      band_scores[candidates[j]] < band_scores[candidates[i]]]

\* max(band_scores.items(), key=lambda x: x[1])[0]: the first of the items
\* with the largest score
optimal_band(candidates, band_scores) ==
    candidates[CHOOSE i \in 1..Len(candidates) :
                 /\ \A j \in 1..Len(candidates) :
                      band_scores[candidates[j]] <= band_scores[candidates[i]]
                 /\ \A j \in 1..(i - 1) :
                      band_scores[candidates[j]] < band_scores[candidates[i]]]

\* self.select_optimal_band(transmission_req, channel_conditions), where the
\* spectrum sensing measures measured
select_optimal_band(r, req, channel_conditions, measured) ==
    LET sensed == sense_spectrum(r, measured)
        candidates == Candidates(r, req)
        band_scores ==
            [band \in SeqToSet(candidates) |->
               _calculate_band_score(band, req, sensed.ret[band],
                                     Get(channel_conditions, req.destination, None))]
    IN  [r |-> sensed.r,
         band_scores |-> band_scores,
         ret |-> IF candidates = <<>> THEN None
                 ELSE optimal_band(candidates, band_scores)]

\* the inputs of the band selections
BandLists == {<<"MICROWAVE", "MILLIMETER_WAVE", "OPTICAL">>, <<"OPTICAL", "MICROWAVE">>}
PreferredLists == {<<>>, <<"OPTICAL">>, <<"TERAHERTZ">>, <<"MILLIMETER_WAVE", "MICROWAVE">>}
ScoringQos == {EmptyDict, Put(EmptyDict, "latency_ms", 5), Put(EmptyDict, "bandwidth_mbps", 60)}
Occupancies == {2, 5}
KnownConditions ==
    {ChannelConditions(200, ber, 25, 10, 0, 0, weather, QualityScore(200, ber, 25)) :
       ber \in {1, 2500}, weather \in {"clear", "cloudy", "rain", "storm"}}
ConditionsByNode == {EmptyDict} \cup {Put(EmptyDict, NodeB, c) : c \in KnownConditions}

\* the measurements of the supported bands with these occupancies
Measured(r, occupancy) ==
    [band \in SeqToSet(r.supported_bands) |->
       _measure_spectrum_occupancy(occupancy[band], 0)]

\* await radio.select_optimal_band(transmission_req, channel_conditions)
SelectOptimalBandOf(preferred, requirements, conditions, occupancies, limit) ==
    /\ radio # Unset
    /\ event.op = "none"
    /\ \A band \in DOMAIN radio.spectrum_sensing_data :
         Len(radio.spectrum_sensing_data[band]) < limit
    /\ \E preferred_bands \in preferred, qos \in requirements,
          channel_conditions \in conditions, occupancy \in occupancies :
         LET req == TransmissionRequest(NodeB, qos, preferred_bands)
             measured == Measured(radio, occupancy)
             res == select_optimal_band(radio, req, channel_conditions, measured)
         IN  /\ CommitRadio(res.r)
             /\ event' = Event("select_optimal_band",
                               [req |-> req,
                                conditions |-> Get(channel_conditions, NodeB, None),
                                measured |-> measured,
                                band_scores |-> res.band_scores],
                               0, IF DOMAIN res.band_scores = {} THEN "None" ELSE res.ret)
    /\ UNCHANGED <<transmission, radio_uses>>

SelectOptimalBand ==
    SelectOptimalBandOf(PreferredLists, ScoringQos, ConditionsByNode,
                        [SeqToSet(radio.supported_bands) -> Occupancies], MaxSensing)

\* a sample that stands out is in some history
Marked(r) ==
    \E band \in DOMAIN r.spectrum_sensing_data :
      5 \in SeqToSet(r.spectrum_sensing_data[band])

\* occupancies of which one at most stands out, and none while such a sample
\* is still in a history
MarkedOccupancies(r) ==
    {occupancy \in [SeqToSet(r.supported_bands) -> Occupancies] :
       Cardinality({band \in DOMAIN occupancy : occupancy[band] = 5})
         <= (IF Marked(r) THEN 0 ELSE 1)}

\* await radio.sense_spectrum()
SenseSpectrumOf(occupancies) ==
    /\ radio # Unset
    /\ event.op = "none"
    /\ \E occupancy \in occupancies :
         LET res == sense_spectrum(radio, Measured(radio, occupancy))
         IN  /\ CommitRadio(res.r)
             /\ event' = Event("sense_spectrum",
                               [measured |-> res.ret,
                                before |-> radio.spectrum_sensing_data],
                               0, "dict")
    /\ UNCHANGED <<transmission, radio_uses>>

(***************************************************************************)
(* Interference mitigation.                                                *)
(***************************************************************************)
\* self._identify_interference(link)
_identify_interference(link) ==
    IF link.channel_conditions = None THEN <<>>
    ELSE (IF link.channel_conditions.interference_level > 20
          THEN <<"co_channel_interference">> ELSE <<>>)
         \o (IF link.channel_conditions.multipath_fading > 20
             THEN <<"multipath_interference">> ELSE <<>>)
         \o (IF Abs(link.channel_conditions.doppler_shift) > 500
             THEN <<"frequency_hopping">> ELSE <<>>)
         \o (IF link.frequency_band \in {"TERAHERTZ", "OPTICAL"}
             THEN <<"spatial_interference">> ELSE <<>>)

\* self._apply_frequency_hopping(link)
_apply_frequency_hopping(link) == [link |-> link, ret |-> TRUE]

\* self._apply_power_control(link): 2 dB more
_apply_power_control(link) ==
    [link |-> [link EXCEPT !.power_level = @ + 200], ret |-> TRUE]

\* self._apply_beamforming(link)
_apply_beamforming(link) ==
    [link |-> link, ret |-> link.frequency_band \in {"TERAHERTZ", "OPTICAL"}]

\* self._switch_frequency_band(link): the first supported band that is not
\* the link's
_switch_frequency_band(r, link) ==
    LET others == SelectSeq(r.supported_bands, LAMBDA band : band # link.frequency_band)
    IN  IF others = <<>> THEN [link |-> link, ret |-> FALSE]
        ELSE [link |-> [link EXCEPT !.frequency_band = others[1]], ret |-> TRUE]

\* a strategy that is not tried: the link as it was, no success
Skipped(link) == [link |-> link, ret |-> FALSE]

\* the body of the loop of cognitive_interference_mitigation for a link of
\* active_links: the link afterwards, mitigation_success, and the strategies
\* that were called, in order
Mitigate(r, link) ==
    LET sources == SeqToSet(_identify_interference(link))
        hopping == "frequency_hopping" \in sources
        control == "co_channel_interference" \in sources
        forming == "spatial_interference" \in sources
        hop == IF hopping THEN _apply_frequency_hopping(link) ELSE Skipped(link)
        power == IF control THEN _apply_power_control(hop.link) ELSE Skipped(hop.link)
        beam == IF forming THEN _apply_beamforming(power.link) ELSE Skipped(power.link)
        mitigation_success == hop.ret \/ power.ret \/ beam.ret
        switch == IF ~mitigation_success THEN _switch_frequency_band(r, beam.link)
                  ELSE Skipped(beam.link)
    IN  [link |-> switch.link,
         ret |-> IF ~mitigation_success THEN switch.ret ELSE mitigation_success,
         sources |-> _identify_interference(link),
         applied |-> (IF hopping THEN <<"frequency_hopping">> ELSE <<>>)
                     \o (IF control THEN <<"power_control">> ELSE <<>>)
                     \o (IF forming THEN <<"beamforming">> ELSE <<>>)
                     \o (IF ~mitigation_success THEN <<"band_switching">> ELSE <<>>)]

\* self.cognitive_interference_mitigation(interfered_links), over the first n
\* of the ids: the radio, mitigation_results and what was done to each link
RECURSIVE MitigateAll(_, _, _)
MitigateAll(r, interfered_links, n) ==
    IF n = 0 THEN [r |-> r, ret |-> EmptyDict, done |-> <<>>]
    ELSE LET before == MitigateAll(r, interfered_links, n - 1)
             link_id == interfered_links[n]
         IN  IF link_id \notin RadioLinkIds(before.r)
             THEN [before EXCEPT !.ret = Put(@, link_id, FALSE)]
             ELSE LET i == RadioLinkIndex(before.r, link_id)
                      link == before.r.active_links[i]
                      m == Mitigate(before.r, link)
                  IN  [r |-> [before.r EXCEPT !.active_links[i] = m.link],
                       ret |-> Put(before.ret, link_id, m.ret),
                       done |-> Append(before.done,
                                       [link_id |-> link_id,
                                        sources |-> m.sources,
                                        applied |-> m.applied,
                                        before |-> link,
                                        after |-> m.link])]

cognitive_interference_mitigation(r, interfered_links) ==
    MitigateAll(r, interfered_links, Len(interfered_links))

\* a link id the radio never established
UnknownLink == RadioLinkId(NodeA, NodeZ, "MICROWAVE")

\* await radio.cognitive_interference_mitigation(interfered_links)
CognitiveInterferenceMitigation ==
    /\ radio # Unset
    /\ event.op = "none"
    /\ radio_uses < MaxUses
    /\ \E first \in RadioLinkIds(radio), rest \in {<<>>, <<UnknownLink>>} :
         LET interfered_links == <<first>> \o rest
             res == cognitive_interference_mitigation(radio, interfered_links)
         IN  /\ CommitRadio(res.r)
             /\ event' = Event("cognitive_interference_mitigation",
                               [interfered_links |-> interfered_links,
                                done |-> res.done,
                                mitigation_results |-> res.ret],
                               0, "dict")
    /\ radio_uses' = radio_uses + 1
    /\ UNCHANGED transmission

(***************************************************************************)
(* Adaptive transmission.  The data is modelled by its length; the call is *)
(* suspended in the asyncio.sleep of _transmit_chunk once per iteration.   *)
(***************************************************************************)
\* retransmissions > 5 of adaptive_transmission
max_retransmissions == 5
\* base_chunk_size and the minimum of _calculate_optimal_chunk_size, bytes
base_chunk_size == 1024
min_chunk_size == 64

\* a step of two rungs down the ladder instead of one
StepDown_skipping(modulation) ==
    CASE modulation = "QAM64" -> "QPSK"
      [] modulation = "QAM16" -> "BPSK"
      [] modulation = "QPSK" -> "BPSK"
      [] OTHER -> modulation

\* the if/elif chain of _adapt_transmission_parameters
StepDown(modulation) ==
    CASE modulation = "QAM64" -> "QAM16"
      [] modulation = "QAM16" -> "QPSK"
      [] modulation = "QPSK" -> "BPSK"
      [] OTHER -> modulation

\* self._adapt_transmission_parameters(link, conditions); data_rate *= 0.8
\* rounds down to the unit
_adapt_transmission_parameters(link, conditions) ==
    [link EXCEPT
       !.data_rate = IF conditions.bit_error_rate > max_acceptable_ber
                     THEN (@ * 4) \div 5 ELSE @,
       !.power_level = IF conditions.signal_to_noise_ratio < min_snr_threshold
                       THEN @ + 300 ELSE @,
       !.modulation = IF conditions.link_quality_score < poor_quality
                      THEN StepDown(@) ELSE @]

\* self._calculate_optimal_chunk_size(conditions)
_calculate_optimal_chunk_size(conditions) ==
    Max(min_chunk_size, (base_chunk_size * conditions.link_quality_score) \div FullQuality)

\* the outcomes random.random() < success_probability of _transmit_chunk can
\* have: random() is in [0, 1)
ChunkOutcomes(link) ==
    LET success_probability == link.channel_conditions.link_quality_score
    IN  {success \in BOOLEAN : IF success THEN success_probability > 0
                                ELSE success_probability < FullQuality}

\* the call as it ends: transmission_result is its success, bytes_transmitted
\* and retransmissions
TransmissionEnd(tx) ==
    [link_id |-> tx.link_id,
     data_size |-> tx.data_size,
     success |-> tx.bytes_transmitted = tx.data_size,
     bytes_transmitted |-> tx.bytes_transmitted,
     retransmissions |-> tx.retransmissions,
     streak |-> tx.streak,
     iterations |-> tx.iterations]

\* one iteration of the loop of adaptive_transmission up to the sleep of
\* _transmit_chunk, the channel assessment drawing d
Iterate(r, tx, d) ==
    LET i == RadioLinkIndex(r, tx.link_id)
        link == r.active_links[i]
        current_conditions == _assess_channel_conditions(link, d)
        assessed == [link EXCEPT !.channel_conditions = current_conditions]
        adapted == IF current_conditions.link_quality_score < link_quality_threshold
                   THEN _adapt_transmission_parameters(assessed, current_conditions)
                   ELSE assessed
        chunk_size == Min(tx.data_size - tx.bytes_transmitted,
                          _calculate_optimal_chunk_size(current_conditions))
    IN  [r |-> [r EXCEPT !.active_links[i] = adapted],
         tx |-> [tx EXCEPT !.chunk_size = chunk_size,
                           !.data_rate = adapted.data_rate,
                           !.iterations = @ + 1]]

\* the call as it starts: nothing sent, nothing retransmitted
Transmission(link_id, data_size) ==
    [link_id |-> link_id,
     data_size |-> data_size,
     bytes_transmitted |-> 0,
     retransmissions |-> 0,
     chunk_size |-> 0,
     data_rate |-> 0,
     streak |-> 0,
     iterations |-> 0]

\* a failed chunk that is not counted
AfterChunk_uncounted(r, tx, success) ==
    IF success
    THEN [r |-> [r EXCEPT !.throughput_history = Append(@, tx.data_rate)],
          tx |-> [tx EXCEPT !.bytes_transmitted = @ + tx.chunk_size, !.streak = 0],
          break |-> FALSE]
    ELSE [r |-> r, tx |-> tx, break |-> FALSE]

\* the rest of an iteration after the sleep, the chunk having this outcome:
\* the counters, and whether the loop is left by its break
AfterChunk(r, tx, success) ==
    IF success
    THEN [r |-> [r EXCEPT !.throughput_history = Append(@, tx.data_rate)],
          tx |-> [tx EXCEPT !.bytes_transmitted = @ + tx.chunk_size, !.streak = 0],
          break |-> FALSE]
    ELSE [r |-> r,
          tx |-> [tx EXCEPT !.retransmissions = @ + 1, !.streak = @ + 1],
          break |-> tx.retransmissions + 1 > max_retransmissions]

\* the call goes on to its next sleep, or ends with its result
Proceed(r, tx, break, draws) ==
    IF ~break /\ tx.bytes_transmitted < tx.data_size
    THEN /\ \E d \in draws :
              LET next == Iterate(r, tx, d)
              IN  /\ CommitRadio(next.r)
                  /\ transmission' = next.tx
         /\ radio_uses' = radio_uses + 1
         /\ UNCHANGED event
    ELSE /\ CommitRadio(r)
         /\ transmission' = Unset
         /\ event' = Event("adaptive_transmission", TransmissionEnd(tx), tx.data_size,
                           IF tx.bytes_transmitted = tx.data_size THEN "True" ELSE "False")
         /\ UNCHANGED radio_uses

\* the chunk transmissions a call can make at most
MostChunks(data_size) ==
    IF data_size = 0 THEN 0
    ELSE (data_size + min_chunk_size - 1) \div min_chunk_size + max_retransmissions + 1

\* await radio.adaptive_transmission(link, data)
AdaptiveTransmissionOf(sizes, draws) ==
    /\ radio # Unset
    /\ event.op = "none"
    /\ transmission = Unset
    /\ \E link_id \in RadioLinkIds(radio), data_size \in sizes :
         /\ radio_uses + MostChunks(data_size) <= MaxUses
         /\ Proceed(radio, Transmission(link_id, data_size), FALSE, draws)

\* the sleep of _transmit_chunk ends: the outcome of the chunk, and the call
\* up to its next sleep or its end
ChunkDoneOf(draws) ==
    /\ transmission # Unset
    /\ event.op = "none"
    /\ LET link == radio.active_links[RadioLinkIndex(radio, transmission.link_id)]
       IN  \E success \in ChunkOutcomes(link) :
             LET after == AfterChunk(radio, transmission, success)
             IN  Proceed(after.r, after.tx, after.break, draws)

\* the draws of the assessments of links that meet interference
InterferedDraws ==
    {Draw(200, 1, 25, "clear", doppler, interference) :
       doppler \in {0, 1000}, interference \in {0, 30}}

\* the lengths of the data transmitted, and the draws of the assessments
\* during a transmission
DataLengths == {0, 400}
TransmitDraws ==
    {Draw(200, 1, 25, "clear", 0, 0), Draw(140, 2500, 25, "clear", 0, 0),
     Draw(100, 2500, 25, "clear", 0, 0), Draw(200, 1, 25, "cloudy", 0, 0),
     Draw(200, 2500, 25, "cloudy", 0, 0)}

InitProtocol ==
    /\ now = StartTime
    /\ node_id = NodeA
    /\ sequence_counter = 0
    /\ pending_acks = EmptyDict
    /\ received_packets = EmptyDict
    /\ duplicate_filter = EmptyDict
    /\ routing_table = EmptyDict
    /\ neighbor_nodes = EmptyDict
    /\ link_qualities = EmptyDict
    /\ packets_sent = 0
    /\ packets_received = 0
    /\ packets_dropped = 0
    /\ bytes_transmitted = 0
    /\ bytes_received = 0
    /\ timers = EmptyDict
    /\ inflight = {}
    /\ retry_log = EmptyDict
    /\ failures = EmptyDict
    /\ expiries = EmptyDict
    /\ acks_in_backoff = {}

InitNetwork ==
    /\ nodes = <<>>
    /\ links = <<>>
    /\ network_routing_table = EmptyDict
    /\ total_data_transmitted = 0
    /\ network_status = "active"
    /\ emergency_protocols_active = FALSE

\* no packet object is under examination
InitPacket ==
    /\ sample = Unset
    /\ sealed = Unset
    /\ encoded = Unset
    /\ decoded = Unset

\* no radio has been constructed, no transmission is under way
InitRadio ==
    /\ radio = Unset
    /\ transmission = Unset
    /\ radio_uses = 0

Init ==
    /\ InitProtocol
    /\ InitNetwork
    /\ InitPacket
    /\ InitRadio
    /\ event = NoEvent

Next ==
    \/ SendPacket
    \/ SendHeartbeat
    \/ ReceivePacket
    \/ ReceiveReply
    \/ ReceiveJunk
    \/ Return
    \/ TransmitDone
    \/ TimeoutExpires
    \/ BackoffEnds
    \/ UpdateRoutingTable
    \/ WaitForTimer
    \/ Idle

vars ==
    <<now, node_id, sequence_counter, pending_acks, received_packets,
      duplicate_filter, routing_table, neighbor_nodes, link_qualities, packets_sent,
      packets_received, packets_dropped, bytes_transmitted, bytes_received, timers,
      inflight, retry_log, failures, event, expiries, acks_in_backoff, nodes, links,
      network_routing_table, total_data_transmitted, network_status,
      emergency_protocols_active, sample, sealed, encoded, decoded, radio,
      transmission, radio_uses>>

\* the protocol object of one node
Spec == Init /\ [][Next]_vars

\* the protocol object of a node that sends one packet and is given the
\* replies of its peer while the ack-timeout flow of the packet backs off
NextBackoff ==
    \/ SendPacketUpTo(1)
    \/ ReceiveReplyInBackoff
    \/ Return
    \/ TransmitDone
    \/ TimeoutExpires
    \/ BackoffEnds
    \/ UpdateRoutingTable
    \/ WaitForTimer

SpecBackoff == Init /\ [][NextBackoff]_vars

\* the routing tables: a protocol object that sends one packet, resends it,
\* receives and has its table replaced, and a network of two nodes, whose
\* table is rebuilt by add_node and establish_link
NextTables ==
    \/ SendPacketUpTo(1)
    \/ ReceivePacket
    \/ ReceiveReply
    \/ Return
    \/ TransmitDone
    \/ TimeoutExpires
    \/ BackoffEnds
    \/ UpdateRoutingTable
    \/ WaitForTimer
    \/ AddNodeOf({NetworkNode(NodeA, 0), NetworkNode(NodeB, 0)})
    \/ EstablishLinkOf({<<NodeA, NodeB>>}, {"inter_satellite"}, 1)

SpecTables == Init /\ [][NextTables]_vars

\* the sends, the replies of the peer, the routing-table updates and the
\* timers of one node
NextPending ==
    \/ SendPacket
    \/ ReceiveReply
    \/ Return
    \/ TransmitDone
    \/ TimeoutExpires
    \/ BackoffEnds
    \/ UpdateRoutingTable
    \/ WaitForTimer

\* that node on a running event loop: a caller takes the result of its call,
\* and a coroutine whose asyncio.sleep is over is resumed however many other
\* calls are made meanwhile (the loop runs its ready callbacks in the order
\* they became ready)
SpecFair ==
    /\ Init /\ [][NextPending]_vars
    /\ WF_vars(Return)
    /\ SF_vars(TransmitDone)
    /\ SF_vars(TimeoutExpires)
    /\ SF_vars(BackoffEnds)
    /\ SF_vars(WaitForTimer)

\* the network object: topologies of up to MaxTopologyLinks established links,
\* up to MaxTopologyData bytes carried, one emergency
NextNetwork ==
    \/ AddNodeOf(NetworkNodes \cup {Replacement})
    \/ EstablishLinkOf(ChainEnds, {"inter_satellite"}, MaxTopologyLinks)
    \/ EstablishLinkOf({<<NodeA, NodeC>>}, {"deep_space"}, MaxTopologyLinks)
    \/ FindOptimalRoute
    \/ TransmitDataOf({<<NodeA, NodeC>>, <<NodeC, NodeA>>, <<NodeA, NodeA>>}, MaxTopologyData)
    \/ ActivateEmergency /\ ~emergency_protocols_active
    \/ MonitorNetworkHealth
    \/ Return

SpecNetwork == Init /\ [][NextNetwork]_vars

\* the network object with node ids that contain "-"
NextEmergency ==
    \/ AddNodeOf(DashedNodes)
    \/ ActivateEmergencyOf(DashedLists)
    \/ Return

SpecEmergency == Init /\ [][NextEmergency]_vars

\* the network object under load: links established before the first
\* transmission, then any transmissions up to MaxData bytes and transmissions
\* from node A to node C up to MaxChainData bytes
NextDegrade ==
    \/ AddNode
    \/ EstablishLinkOf(ChainEnds, {"inter_satellite"}, MaxLinks)
         /\ total_data_transmitted = 0
    \/ TransmitData
    \/ TransmitDataOf({<<NodeA, NodeC>>}, MaxChainData)
    \/ Return

SpecDegrade == Init /\ [][NextDegrade]_vars

\* routing of both objects, which share no state: each is run with the
\* other one as constructed, the protocol up to the time its first timer is
\* due
NextRoute ==
    \/ InitNetwork /\ SendPacket
    \/ InitNetwork /\ TransmitDone
    \/ InitNetwork /\ UpdateRoutingTable
    \/ InitProtocol /\ AddNode
    \/ InitProtocol /\ EstablishLink
    \/ InitProtocol /\ TransmitData
    \/ Return

SpecRoute == Init /\ [][NextRoute]_vars

\* the sending side of the protocol object with several packets, up to the
\* first retransmissions
NextSequence ==
    \/ SendPacketUpTo(MaxBurst)
    \/ SendHeartbeat
    \/ ReceivePacket
    \/ ReceiveReply
    \/ Return
    \/ TransmitDone
    \/ TimeoutExpires
    \/ BackoffEnds
    \/ UpdateRoutingTable
    \/ WaitForTimer /\ now' <= StartTime + BurstHorizon

SpecSequence == Init /\ [][NextSequence]_vars

\* a packet object on its own
NextPacket ==
    \/ NewPacket
    \/ Corrupt
    \/ AppendHop
    \/ Serialize
    \/ Deserialize

SpecPacket == Init /\ [][NextPacket]_vars

\* a packet object passed from node to node
NextHistory ==
    \/ NewPacket
    \/ RelayHop
    \/ Serialize

SpecHistory == Init /\ [][NextHistory]_vars

\* a radio that establishes links
NextRadio ==
    \/ NewRadioOf(BandLists)
    \/ RadioEstablishLinkOf({NodeB, NodeC}, {"MICROWAVE", "OPTICAL"}, QosSamples,
                            ClearDraws \cup WeatherDraws, MaxLinks)
    \/ Return

SpecRadio == Init /\ [][NextRadio]_vars

\* a radio that selects bands
NextBand ==
    \/ NewRadioOf(BandLists)
    \/ SelectOptimalBand
    \/ Return

SpecBand == Init /\ [][NextBand]_vars

\* the draws at the ends of the ranges of _assess_channel_conditions
ExtremeDraws ==
    {Draw(snr, ber, loss, weather, 0, 0) :
       snr \in {100, 300}, ber \in {1, 1000000}, loss \in {1, 50},
       weather \in {"clear", "cloudy", "rain", "storm"}}

\* a network that establishes a link of any mode and a radio that establishes
\* a link on any band
NextQuality ==
    \/ AddNode
    \/ EstablishLinkOf(LinkEnds, CommunicationMode, 1)
    \/ NewRadioOf({FrequencyBand})
    \/ RadioEstablishLinkOf({NodeB}, SeqToSet(FrequencyBand), {EmptyDict}, ExtremeDraws, 1)
    \/ Return

SpecQuality == Init /\ [][NextQuality]_vars

\* a radio that senses the spectrum again and again
NextSense ==
    \/ NewRadioOf({<<"MICROWAVE">>, <<"OPTICAL", "MICROWAVE">>})
    \/ SenseSpectrumOf(MarkedOccupancies(radio))
    \/ SelectOptimalBandOf({<<>>}, {EmptyDict}, {EmptyDict}, MarkedOccupancies(radio),
                           history_limit + 1)
    \/ Return

SpecSense == Init /\ [][NextSense]_vars

\* a radio that mitigates interference on its links
NextMitigate ==
    \/ NewRadioOf(BandLists \cup {<<"OPTICAL">>})
    \/ RadioEstablishLinkOf({NodeB}, {"MICROWAVE", "OPTICAL"}, {EmptyDict},
                            InterferedDraws, MaxLinks)
    \/ CognitiveInterferenceMitigation
    \/ Return

SpecMitigate == Init /\ [][NextMitigate]_vars

\* a radio that transmits over an optical link
NextTransmit ==
    \/ NewRadioOf({<<"OPTICAL", "MICROWAVE">>})
    \/ RadioEstablishLinkOf({NodeB}, {"OPTICAL"}, {Put(EmptyDict, "bandwidth_mbps", 200)},
                            {Draw(200, 1, 25, "clear", 0, 0)}, 1)
    \/ AdaptiveTransmissionOf(DataLengths, TransmitDraws)
    \/ ChunkDoneOf(TransmitDraws)
    \/ Return

SpecTransmit == Init /\ [][NextTransmit]_vars

\* the same radio on an event loop that resumes the transmission whenever the
\* sleep of _transmit_chunk has ended, and a caller that takes its results
SpecTransmitFair ==
    Init /\ [][NextTransmit]_vars /\ WF_vars(ChunkDoneOf(TransmitDraws)) /\ WF_vars(Return)

(***************************************************************************)
(* Properties.                                                             *)
(***************************************************************************)
\* the key of the duplicate filter
PacketKey(p) == p.source_id \o Underscore \o Digits(p.sequence_number)

\* the filter holds the key of p, recorded within the cache window
Cached(p) ==
    /\ PacketKey(p) \in DOMAIN duplicate_filter
    /\ now - duplicate_filter[PacketKey(p)] <= packet_cache_duration

TTLExpired(p) == p.timestamp + p.ttl < now

Forwardable(p) == p.packet_type \in {"DATA", "EMERGENCY", "TIME_SYNC"}

\* the step is a call of receive_packet with the bytes of a valid packet that
\* is no duplicate
ReceivesNew ==
    /\ event'.op = "receive_packet"
    /\ is_valid(event'.arg)
    /\ ~Cached(event'.arg)

\* C1: a received packet whose checksum does not match its fields is dropped
\* before any processing: receive_packet returns None, packets_dropped grows
\* by one, and nothing is stored, forwarded, acknowledged or recorded
C1_InvalidChecksumDropped ==
    [][(event'.op = "receive_packet" /\ ~is_valid(event'.arg))
         => /\ event'.ret = "None"
            /\ packets_dropped' = packets_dropped + 1
            /\ UNCHANGED <<received_packets, inflight, sequence_counter, pending_acks,
                           neighbor_nodes, routing_table, duplicate_filter>>]_vars

\* C2: of valid packets with the same (source, sequence) inside the cache
\* window only the first is processed: a packet whose key is not cached is
\* dispatched (receive_packet returns it), one whose key is cached returns
\* None and changes no counter, pending entry, neighbor, route or delivery
C2_DuplicateFiltered ==
    [][(event'.op = "receive_packet" /\ is_valid(event'.arg))
         => IF Cached(event'.arg)
            THEN /\ event'.ret = "None"
                 /\ UNCHANGED <<stats_vars, pending_acks, neighbor_nodes,
                                routing_table, received_packets>>
            ELSE event'.ret # "None"]_vars

\* C3: the ack-timeout flow of a DATA packet resends it max_retries times,
\* the k-th resend 2^k seconds after the timeout expired (k from 0), and then
\* removes it from pending_acks as failed, once, with no resend afterwards;
\* as long as the packet is pending its flow is alive
C3_RetriesThenFailed ==
    /\ \A pid \in DOMAIN retry_log :
          /\ Len(retry_log[pid]) <= max_retries
          /\ \A k \in 1..Len(retry_log[pid]) : retry_log[pid][k] = Pow(2, k - 1)
    /\ \A pid \in DOMAIN failures :
          /\ failures[pid] = 1
          /\ Len(Get(retry_log, pid, <<>>)) = max_retries
          /\ pid \notin DOMAIN pending_acks
          /\ pid \notin DOMAIN timers
          /\ \A t \in inflight : t.packet.packet_id # pid
    /\ \A pid \in DOMAIN pending_acks :
          /\ \/ pid \in DOMAIN timers
             \/ \E t \in inflight :
                   t.caller = "_handle_ack_timeout" /\ t.packet.packet_id = pid
          /\ pid \in DOMAIN timers =>
                pending_acks[pid].retry_count =
                    Len(Get(retry_log, pid, <<>>))
                      + (IF timers[pid].pc = "backoff" THEN 1 ELSE 0)

\* a packet has failed after its resends
C3_Witness ==
    \E pid \in DOMAIN failures :
        /\ retry_log[pid] = <<1, 2, 4, 8, 16>>
        /\ pid \notin DOMAIN pending_acks

\* C4: a valid ACK naming a pending packet removes that entry, an ACK naming
\* another id leaves pending_acks as it is, and a delivery failure is reported
\* only of a packet that is still pending, so never of an acknowledged one
C4_AckClearsPending ==
    [][/\ (ReceivesNew /\ event'.arg.packet_type = "ACK")
            => LET ref == ReferencedId(event'.arg.payload)
               IN  IF ref \in DOMAIN pending_acks
                   THEN pending_acks' = Del(pending_acks, ref)
                   ELSE pending_acks' = pending_acks
       /\ \A pid \in DOMAIN failures' :
             failures'[pid] > Get(failures, pid, 0) => pid \in DOMAIN pending_acks
      ]_vars

\* C5: a valid new packet of a forwardable type for another node, not expired
\* and not yet routed through this node, is re-routed: this node is appended
\* to its route history and it is transmitted to the neighbor or next hop
\* whenever there is one
C5_Forwarded ==
    [][(/\ ReceivesNew
        /\ Forwardable(event'.arg)
        /\ event'.arg.destination_id # node_id
        /\ ~TTLExpired(event'.arg)
        /\ node_id \notin SeqToSet(event'.arg.route_history)
        /\ NextHop(Self, event'.arg.destination_id) # NoRoute)
         => \E t \in inflight' \ inflight :
               /\ t.packet.packet_id = event'.arg.packet_id
               /\ t.packet.route_history = Append(event'.arg.route_history, node_id)
               /\ t.neighbor = NextHop(Self, event'.arg.destination_id)]_vars

\* C6: a packet that arrives with this node in its route history is never
\* transmitted onward, and when it would otherwise be forwarded it is
\* dropped and packets_dropped grows by one
C6_LoopDropped ==
    [][(ReceivesNew /\ node_id \in SeqToSet(event'.arg.route_history))
         => /\ \A t \in inflight' \ inflight :
                  t.packet.packet_id # event'.arg.packet_id
            /\ (Forwardable(event'.arg) /\ event'.arg.destination_id # node_id)
                  => packets_dropped' = packets_dropped + 1]_vars

C8_OversizeRejected ==
    [][(event'.op = "send_packet" /\ event'.size > max_packet_size)
         => /\ event'.ret = "False"
            /\ UNCHANGED <<sequence_counter, pending_acks, stats_vars,
                           link_qualities, timers, inflight>>]_vars

\* an oversize payload was rejected by a node that has a packet pending
C8_Witness ==
    /\ event.op = "send_packet"
    /\ event.size = max_packet_size + 1
    /\ event.ret = "False"
    /\ pending_acks # EmptyDict

\* C9: with no path the failure is returned at once as False: by send_packet
\* when the destination is no neighbor and not in the routing table, and by
\* transmit_data when find_optimal_route found no route, which then leaves
\* every node load, every packet loss and total_data_transmitted as they were
C9_NoRouteReturnsFalse ==
    [][/\ (/\ event'.op = "send_packet"
           /\ event'.arg # None
           /\ event'.arg.destination_id \notin DOMAIN neighbor_nodes
           /\ event'.arg.destination_id \notin DOMAIN routing_table)
            => event'.ret = "False" /\ inflight' = inflight
       /\ (event'.op = "transmit_data" /\ event'.arg.route = <<>>)
            => /\ event'.ret = "False"
               /\ UNCHANGED <<nodes, links, total_data_transmitted>>
      ]_vars

\* transmit_data found no route between two registered nodes of a network
\* that has links and has carried data
C9_Witness ==
    /\ event.op = "transmit_data"
    /\ event.arg.route = <<>>
    /\ event.ret = "False"
    /\ {event.arg.source_id, event.arg.target_id} \subseteq NodeIds(Network)
    /\ links # <<>>
    /\ total_data_transmitted > 0

\* C10: a valid new DATA packet for this node is stored and answered by one
\* ACK, routed toward its source, whose payload is the packet's id padded
\* with NUL to 64 bytes; an EMERGENCY or TIME_SYNC packet for this node is
\* stored and no ACK is made.  (With a route the packet is stored when the
\* transmission of the ACK ends.)
C10_DeliveredAndAcked ==
    [][(/\ ReceivesNew
        /\ Forwardable(event'.arg)
        /\ event'.arg.destination_id = node_id)
         => IF event'.arg.packet_type = "DATA"
            THEN /\ sequence_counter' = sequence_counter + 1
                 /\ IF NextHop(Self, event'.arg.source_id) # NoRoute
                    THEN \E t \in inflight' :
                           /\ inflight' = inflight \cup {t}
                           /\ t \notin inflight
                           /\ t.packet.packet_type = "ACK"
                           /\ t.packet.destination_id = event'.arg.source_id
                           /\ t.packet.payload =
                                 LJust(event'.arg.packet_id, DIGEST_FIELD)
                    ELSE event'.arg.packet_id \in DOMAIN received_packets'
            ELSE /\ event'.arg.packet_id \in DOMAIN received_packets'
                 /\ sequence_counter' = sequence_counter
                 /\ inflight' = inflight]_vars

\* the fields the checksum covers
Summed(p) ==
    <<p.packet_id, p.source_id, p.destination_id, p.packet_type, p.priority,
      p.payload, p.sequence_number, p.timestamp>>

\* C11: the bytes serialize makes of a packet that send_packet built parse
\* back to a packet with the same packet_id, source_id, destination_id, type,
\* priority, sequence number, timestamp, payload and checksum, which is valid,
\* whatever the length of the sender's id
C11_RoundTrip ==
    (decoded # Unset /\ sample = sealed)
        => /\ decoded # None
           /\ Summed(decoded) = Summed(sample)
           /\ decoded.checksum = sample.checksum
           /\ is_valid(decoded)

\* C14: a packet is valid exactly when the fields the checksum covers are
\* the ones it was computed over: a change of packet_id, source_id,
\* destination_id, type, priority, payload, sequence number or timestamp
\* makes is_valid false, a change of the route history alone keeps it true
C14_ChecksumCoversFields ==
    sample # Unset => (is_valid(sample) <=> Summed(sample) = Summed(sealed))

\* C13: after exactly five consecutive ack-timeout expiries with no ACK the
\* pending entry of the DATA packet is gone and one delivery failure has been
\* reported for it (max_retries = 5)
C13_FailedAfterFiveExpiries ==
    \A pid \in DOMAIN expiries :
        expiries[pid] = max_retries
            => pid \notin DOMAIN pending_acks /\ Get(failures, pid, 0) = 1

\* C13 as amended: the failure comes with the expiry after the last retry,
\* the sixth: a packet has failed exactly when its flow has seen
\* max_retries + 1 expiries, then it is out of pending_acks with one failure
\* reported, and up to max_retries expiries it is still pending
C13_FailedAfterSixExpiries ==
    \A pid \in DOMAIN expiries :
        /\ expiries[pid] <= max_retries + 1
        /\ expiries[pid] = max_retries + 1 <=> pid \in DOMAIN failures
        /\ pid \in DOMAIN failures =>
              failures[pid] = 1 /\ pid \notin DOMAIN pending_acks
        /\ expiries[pid] <= max_retries => pid \in DOMAIN pending_acks

\* the sixth expiry of the only pending packet has just reported its failure
C13_Witness ==
    /\ pending_acks = EmptyDict
    /\ \E pid \in DOMAIN expiries :
          /\ expiries[pid] = max_retries + 1
          /\ failures[pid] = 1
          /\ Len(retry_log[pid]) = max_retries

\* a packet whatever its retry count
Ident(p) == [p EXCEPT !.retry_count = 0]

\* the packets this node has built that it still holds: pending, waiting in
\* a timeout flow, in transmission, or just handed back by send_packet
Built ==
    {Ident(pending_acks[k]) : k \in DOMAIN pending_acks}
      \cup {Ident(timers[k].packet) : k \in DOMAIN timers}
      \cup {Ident(t.packet) : t \in {t \in inflight : t.packet.source_id = node_id}}
      \cup {Ident(e.arg) : e \in {e \in {event} : e.op = "send_packet" /\ e.arg # None}}

\* C12: the sequence numbers of a node's packets are distinct and below the
\* counter; a step that builds packets gives them the next numbers, one each,
\* so numbers grow in the order of creation; every send_packet call that
\* passes the size check takes exactly one number, with or without a route;
\* and a retransmission takes none
C12_SequenceNumbers ==
    /\ [](\A p, q \in Built :
            /\ p.sequence_number < sequence_counter
            /\ p.sequence_number = q.sequence_number => p = q)
    /\ [][/\ sequence_counter' >= sequence_counter
          /\ {p.sequence_number : p \in Built' \ Built}
                \subseteq sequence_counter..(sequence_counter' - 1)
          /\ (event'.op = "send_packet" /\ event'.arg # None)
                => /\ event'.arg.sequence_number = sequence_counter
                   /\ sequence_counter' = sequence_counter + 1
          /\ event'.op \notin {"send_packet", "send_heartbeat", "receive_packet"}
                => sequence_counter' = sequence_counter
          /\ retry_log' # retry_log
                => /\ sequence_counter' = sequence_counter
                   /\ Built' \subseteq Built
         ]_vars

\* two packets were built, the first is being retransmitted and the second
\* found no route
C12_Witness ==
    /\ sequence_counter = 2
    /\ event.op = "send_packet"
    /\ event.ret = "False"
    /\ event.arg # None
    /\ event.arg.sequence_number = 1
    /\ \E t \in inflight :
          /\ t.caller = "_handle_ack_timeout"
          /\ t.packet.sequence_number = 0

(***************************************************************************)
(* Routes of least weight                                                  *)
(***************************************************************************)

\* the ids in the registry
Registered == {nodes[i].node_id : i \in 1..Len(nodes)}

\* the links from u to v
LinksBetween(u, v) ==
    {l \in 1..Len(links) : links[l].source_node = u /\ links[l].target_node = v}

\* the directed paths from s to t that visit no node twice
Paths(s, t) ==
    {p \in UNION {[1..k -> Registered] : k \in 2..Cardinality(Registered)} :
        /\ p[1] = s
        /\ p[Len(p)] = t
        /\ \A i, j \in 1..Len(p) : i # j => p[i] # p[j]
        /\ \A i \in 1..(Len(p) - 1) : LinksBetween(p[i], p[i + 1]) # {}}

\* latency * (2 - quality_score) of the lightest link from u to v, in the
\* unit latency * quality / 100
HopCost(u, v) ==
    LET cost(l) == links[l].latency * (200 - links[l].quality_score)
    IN  cost(CHOOSE l \in LinksBetween(u, v) :
                 \A m \in LinksBetween(u, v) : cost(l) <= cost(m))

\* the total weight of the path p
Cost(p) == Sum([i \in 1..(Len(p) - 1) |-> HopCost(p[i], p[i + 1])], 1..(Len(p) - 1))

\* the route is what the claim asks of find_optimal_route(s, t)
IsOptimalRoute(s, t, route) ==
    IF s \notin Registered \/ t \notin Registered THEN route = <<>>
    ELSE IF s = t THEN route = <<s>>
    ELSE IF Paths(s, t) = {} THEN route = <<>>
    ELSE /\ route \in Paths(s, t)
         /\ \A p \in Paths(s, t) : Cost(route) <= Cost(p)

\* C15: for registered src # dst, find_optimal_route returns a directed path
\* from src to dst whose total weight is minimal among all directed paths from
\* src to dst; it returns [] exactly when there is no directed path or an
\* endpoint is not registered, and [src] when src = dst is registered.  The
\* route is the one a find_optimal_route call returned, asked for directly or
\* by transmit_data.
C15_OptimalRoute ==
    [][event'.op \in {"find_optimal_route", "transmit_data"}
        => IsOptimalRoute(event'.arg.source_id, event'.arg.target_id,
                          event'.arg.route)]_vars

\* a query from A to C answered with the two-hop route while a direct link
\* from A to C exists
C15_Witness ==
    /\ event.op = "find_optimal_route"
    /\ event.arg.source_id = NodeA
    /\ event.arg.target_id = NodeC
    /\ event.arg.route = <<NodeA, NodeB, NodeC>>
    /\ LinksBetween(NodeA, NodeC) # {}

\* the nodes visited when following the next hops of the routing table from s
\* to t, at most fuel of them
RECURSIVE Follow(_, _, _)
Follow(s, t, fuel) ==
    IF s = t THEN <<s>>
    ELSE IF fuel = 0 \/ s \notin DOMAIN network_routing_table THEN <<s>>
    ELSE IF t \notin DOMAIN network_routing_table[s] THEN <<s>>
    ELSE <<s>> \o Follow(network_routing_table[s][t], t, fuel - 1)

\* C16: after any sequence of add_node, establish_link, transmit_data and
\* activate_emergency_protocol calls the routing table agrees with
\* find_optimal_route: for all registered s # t, routing_table[s] has an entry
\* for t iff find_optimal_route(s, t) is non-empty, and following the table's
\* next hops from s reaches t along a path of the same minimum total weight.
C16_TableAgreesWithRoutes ==
    /\ DOMAIN network_routing_table = Registered
    /\ \A s, t \in Registered :
         (s # t) =>
            \A route \in find_optimal_route(Network, s, t) :
               /\ (t \in DOMAIN network_routing_table[s]) <=> (route # <<>>)
               /\ (route # <<>>) =>
                     LET p == Follow(s, t, Cardinality(Registered))
                     IN  /\ p \in Paths(s, t)
                         /\ Cost(p) = Cost(route)
                         /\ \A q \in Paths(s, t) : Cost(p) <= Cost(q)

\* after links were established, data was carried and an emergency was
\* declared, the table sends A to C by way of B although a direct link exists
C16_Witness ==
    /\ event.op \in {"transmit_data", "activate_emergency_protocol"}
    /\ total_data_transmitted > 0
    /\ emergency_protocols_active
    /\ LinksBetween(NodeA, NodeC) # {}
    /\ NodeA \in DOMAIN network_routing_table
    /\ NodeC \in DOMAIN network_routing_table[NodeA]
    /\ network_routing_table[NodeA][NodeC] = NodeB

(***************************************************************************)
(* The registry                                                            *)
(***************************************************************************)

\* C17: add_node with an id already in the registry returns false and leaves
\* the registry (the node object registered before), the links and the routing
\* table unchanged; add_node with a new id returns true, registers the node
\* and recomputes the routing table (a row for every registered node, an
\* entry exactly where a directed path exists); no operation removes a node
\* from the registry.
C17_AddNode ==
    [][/\ (event'.op = "add_node" /\ event'.arg.node_id \in Registered)
          => /\ event'.ret = "False"
             /\ UNCHANGED <<nodes, links, network_routing_table>>
       /\ (event'.op = "add_node" /\ event'.arg.node_id \notin Registered)
          => /\ event'.ret = "True"
             /\ nodes' = Append(nodes, event'.arg)
             /\ links' = links
             /\ DOMAIN network_routing_table' = Registered'
             /\ \A s, t \in Registered' :
                  (s # t) => ((t \in DOMAIN network_routing_table'[s])
                                <=> (Paths(s, t)' # {}))
       /\ Len(nodes') >= Len(nodes)
       /\ \A k \in 1..Len(nodes) : nodes'[k].node_id = nodes[k].node_id]_vars

\* add_node has refused a node object that differs from the one registered
\* under its id, in a network that has links
C17_Witness ==
    /\ event.op = "add_node"
    /\ event.ret = "False"
    /\ links # <<>>
    /\ \E k \in 1..Len(nodes) :
         nodes[k].node_id = event.arg.node_id /\ nodes[k] # event.arg

(***************************************************************************)
(* Emergencies and the network status                                      *)
(***************************************************************************)

\* C18: after activate_emergency_protocol(type, affected) the status is
\* EMERGENCY, every registered affected node has priority 10, for every
\* registered affected node X and every registered node Y outside the list
\* there is an EMERGENCY_BEACON link from X to Y, the priorities of the other
\* nodes are unchanged and no beacon link was created between two affected
\* nodes.
C18_EmergencyBeacons ==
    [][event'.op = "activate_emergency_protocol"
        => LET affected == SeqToSet(event'.arg)
           IN  /\ network_status' = "emergency"
               /\ Len(nodes') = Len(nodes)
               /\ \A k \in 1..Len(nodes) :
                    nodes'[k].priority_level =
                        IF nodes[k].node_id \in affected THEN 10
                        ELSE nodes[k].priority_level
               /\ \A X \in affected \cap Registered, Y \in Registered \ affected :
                    \E l \in 1..Len(links') :
                       /\ links'[l].source_node = X
                       /\ links'[l].target_node = Y
                       /\ links'[l].link_type = "emergency_beacon"
               /\ \A l \in 1..Len(links') :
                    (/\ links'[l].link_type = "emergency_beacon"
                     /\ links'[l].source_node \in affected
                     /\ links'[l].target_node \in affected)
                    => (l <= Len(links) /\ links[l] = links'[l])]_vars

\* C19: the network status is a state machine over ACTIVE, DEGRADED, EMERGENCY
\* and OFFLINE driven by availability thresholds: DEGRADED and OFFLINE are
\* reached when availability falls.  Whatever the thresholds are, a health
\* check that finds nodes registered and none of them active does not leave
\* the status ACTIVE.
C19_StatusFollowsAvailability ==
    [][(/\ event'.op = "monitor_network_health"
        /\ event'.arg.total_nodes > 0
        /\ event'.arg.node_availability = 0)
       => network_status' # "active"]_vars

(***************************************************************************)
(* The effects of a transmission                                           *)
(***************************************************************************)

\* the packet loss after one more transmission over the link: 0.001 more, at
\* most 0.1, in thousandths
Worn(packet_loss) == IF packet_loss + 1 > 100 THEN 100 ELSE packet_loss + 1

\* C20: a successful transmit_data over a route of k hops raises the packet
\* loss of exactly one link per hop by 0.001, never beyond the cap 0.1, adds
\* the payload size to the current load of every node on the route except
\* the destination, and adds the payload size to total_data_transmitted once;
\* it changes no other link, no other node and not the network status.
C20_TransmitEffects ==
    [][(event'.op = "transmit_data" /\ event'.ret = "True")
        => LET route == event'.arg.route
               k == Len(route) - 1
               senders == {route[i] : i \in 1..k}
           IN  /\ Len(links') = Len(links)
               /\ \E used \in [1..k -> 1..Len(links)] :
                    /\ \A i \in 1..k : used[i] \in LinksBetween(route[i], route[i + 1])
                    /\ \A l \in 1..Len(links) :
                         links'[l] =
                            IF \E i \in 1..k : used[i] = l
                            THEN [links[l] EXCEPT !.packet_loss = Worn(@)]
                            ELSE links[l]
               /\ Len(nodes') = Len(nodes)
               /\ \A j \in 1..Len(nodes) :
                    nodes'[j] =
                       IF nodes[j].node_id \in senders
                       THEN [nodes[j] EXCEPT !.current_load = @ + event'.size]
                       ELSE nodes[j]
               /\ total_data_transmitted' = total_data_transmitted + event'.size
               /\ UNCHANGED <<network_status, emergency_protocols_active,
                              network_routing_table>>]_vars

\* a transmission over the two hops from A to C has found the packet loss of
\* a link of the route at the cap and left it there
C20_Witness ==
    /\ event.op = "transmit_data"
    /\ event.ret = "True"
    /\ event.arg.route = <<NodeA, NodeB, NodeC>>
    /\ total_data_transmitted > 200
    /\ \E l \in LinksBetween(NodeA, NodeB) : links[l].packet_loss = 100

(***************************************************************************)
(* Routing updates and NACKs                                               *)
(***************************************************************************)

\* the routes a routing update carries: destination |-> next hop
Advertised(payload) ==
    IF payload = RouteAdvert THEN [d \in {NodeC} |-> NodeB] ELSE EmptyDict

\* C25: receiving a valid ROUTING_UPDATE packet merges the routes it carries
\* into the routing table: afterwards the table holds the advertised routes
\* and the entries it had before for other destinations.
C25_RoutingUpdateMerged ==
    [][(ReceivesNew /\ event'.arg.packet_type = "ROUTING_UPDATE")
        => LET adv == Advertised(event'.arg.payload)
           IN  /\ \A d \in DOMAIN adv :
                    d \in DOMAIN routing_table' /\ routing_table'[d] = adv[d]
               /\ \A d \in DOMAIN routing_table \ DOMAIN adv :
                    d \in DOMAIN routing_table' /\ routing_table'[d] = routing_table[d]
      ]_vars

\* C26: a valid NACK that names a pending packet makes this node route that
\* packet again at once, to the neighbor or next hop of its destination, with
\* the pending entry and its retry count as they were; a NACK that names an id
\* that is not pending starts no transmission and changes nothing but the
\* receive counters and the duplicate filter.
C26_NackRetransmits ==
    [][(ReceivesNew /\ event'.arg.packet_type = "NACK")
        => LET ref == ReferencedId(event'.arg.payload)
           IN  IF ref \in DOMAIN pending_acks
               THEN /\ pending_acks' = pending_acks
                    /\ (NextHop(Self, pending_acks[ref].destination_id) # NoRoute)
                        => \E t \in inflight' \ inflight :
                              /\ t.packet = pending_acks[ref]
                              /\ t.neighbor =
                                    NextHop(Self, pending_acks[ref].destination_id)
               ELSE UNCHANGED <<sequence_counter, pending_acks, received_packets,
                                routing_table, neighbor_nodes, link_qualities,
                                packets_sent, packets_dropped, bytes_transmitted,
                                timers, inflight, retry_log, failures>>
      ]_vars

(***************************************************************************)
(* The route history on the wire                                           *)
(***************************************************************************)

\* the 32-byte route entries that follow the route_count byte in the bytes of
\* the packet p
RouteEntries(p, bytes) ==
    (Len(bytes) - HeaderSize - 1 - DIGEST_FIELD - Len(p.payload)) \div ID_FIELD

C28_QualityDecays ==
    [][(event'.op = "transmit_data" /\ event'.ret = "True")
        => LET route == event'.arg.route
           IN  \A i \in 1..(Len(route) - 1) :
                  \E l \in LinksBetween(route[i], route[i + 1]) :
                     links'[l].quality_score < links[l].quality_score]_vars

\* the link of active_links with this id is this one
Stored(r, link) ==
    \E i \in 1..Len(r.active_links) : r.active_links[i] = link

Position(r, band) ==
    CHOOSE i \in 1..Len(r.supported_bands) :
      /\ r.supported_bands[i] = band
      /\ \A j \in 1..(i - 1) : r.supported_bands[j] # band

\* C24: select_optimal_band returns a candidate of the highest score, the
\* candidates being the supported bands of the preferred list, or all the
\* supported bands when that list is empty; of the candidates with that score
\* it returns the first in supported order; it returns null exactly when
\* there is no candidate
C24_OptimalBand ==
    [][event'.op = "select_optimal_band"
        => LET preferred == event'.arg.req.preferred_bands
               candidates == {band \in SeqToSet(radio.supported_bands) :
                                preferred = <<>> \/ band \in SeqToSet(preferred)}
               score == event'.arg.band_scores
           IN  /\ DOMAIN score = candidates
               /\ event'.ret = "None" <=> candidates = {}
               /\ candidates # {}
                    => /\ event'.ret \in candidates
                       /\ \A band \in candidates :
                            /\ score[band] <= score[event'.ret]
                            /\ score[band] = score[event'.ret]
                                 => Position(radio, event'.ret) <= Position(radio, band)]_vars

\* a selection among preferred bands of which two have the highest score: the
\* one that comes first in supported order is returned
C24_Witness ==
    /\ event.op = "select_optimal_band"
    /\ event.arg.req.preferred_bands = <<"MILLIMETER_WAVE", "MICROWAVE">>
    /\ event.ret = "MICROWAVE"
    /\ radio.supported_bands = <<"MICROWAVE", "MILLIMETER_WAVE", "OPTICAL">>
    /\ event.arg.band_scores["MILLIMETER_WAVE"] = event.arg.band_scores["MICROWAVE"]
    /\ event.arg.band_scores["MICROWAVE"] < ScoreUnit

\* the score of a band of this selection had the weather been clear
FairScore(arg, band) ==
    _calculate_band_score(band, arg.req, arg.measured[band],
                          [arg.conditions EXCEPT !.weather_impact = "clear"])

\* C30: of the scores of a band selection made with known channel conditions,
\* that of a millimeter-wave or terahertz band in rain or storm is 0.3 to 0.5
\* times what it is in clear weather, that of the optical band in cloudy
\* weather, rain or storm is at most 0.1 times that, and that of the microwave
\* band is the same in any weather (for scores that the final clamp to 1.0
\* leaves alone)
C30_WeatherPenalty ==
    [][(event'.op = "select_optimal_band" /\ event'.arg.conditions # None)
        => LET weather == event'.arg.conditions.weather_impact
           IN  \A band \in DOMAIN event'.arg.band_scores :
                 LET score == event'.arg.band_scores[band]
                     fair == FairScore(event'.arg, band)
                 IN  fair < ScoreUnit
                       => /\ (band \in {"MILLIMETER_WAVE", "TERAHERTZ"}
                                /\ weather \in {"rain", "storm"})
                               => (3 * fair <= 10 * score /\ 10 * score <= 5 * fair)
                          /\ (band = "OPTICAL" /\ weather \in {"cloudy", "rain", "storm"})
                               => 10 * score <= fair
                          /\ band = "MICROWAVE" => score = fair]_vars

\* the one strategy the ordered list gives a link with these interference
\* sources: the first of frequency hopping, power control and beamforming
\* that matches, band switching when none does
FirstMatching(sources, band) ==
    IF "frequency_hopping" \in SeqToSet(sources) THEN "frequency_hopping"
    ELSE IF "co_channel_interference" \in SeqToSet(sources) THEN "power_control"
    ELSE IF "spatial_interference" \in SeqToSet(sources)
              /\ band \in {"TERAHERTZ", "OPTICAL"} THEN "beamforming"
    ELSE "band_switching"

\* C23: for each active link it is given, cognitive_interference_mitigation
\* applies one strategy, the first that matches, and band switching only when
\* none of the others does: the power is raised only when power control is
\* that strategy and the band changes only when band switching is
C23_FirstMatchingStrategy ==
    [][event'.op = "cognitive_interference_mitigation"
        => \A i \in 1..Len(event'.arg.done) :
             LET did == event'.arg.done[i]
                 strategy == FirstMatching(did.sources, did.before.frequency_band)
             IN  /\ did.applied = <<strategy>>
                 /\ strategy # "power_control"
                      => did.after.power_level = did.before.power_level
                 /\ strategy # "band_switching"
                      => did.after.frequency_band = did.before.frequency_band]_vars

\* the link a transmission is made over, in this radio
LinkOf(r, tx) == r.active_links[RadioLinkIndex(r, tx.link_id)]

\* C22: a chunk failure ends adaptive_transmission, without success, exactly
\* when it is the fifth failure in a row of the call: four or fewer in a row
\* leave it running, whatever failed before the last successful chunk
C22_AbortAtFiveInARow ==
    [][transmission # Unset
        => LET ended == transmission' = Unset
               after == IF ended THEN event'.arg ELSE transmission'
           IN  after.retransmissions > transmission.retransmissions
                 => ((ended /\ event'.ret = "False") <=> after.streak = 5)]_vars

\* the rung of a modulation on the robustness ladder
Rung(modulation) ==
    CASE modulation = "BPSK" -> 0
      [] modulation = "QPSK" -> 1
      [] modulation = "QAM16" -> 2
      [] modulation = "QAM64" -> 3

\* C29: in an iteration of the loop of adaptive_transmission the modulation of
\* the link stays or goes one rung down the ladder 64-QAM, 16-QAM, QPSK, BPSK
\* (BPSK stays), the data rate does not increase and the power level does not
\* decrease; when the quality assessed in the iteration is 0.7 or more all
\* three stay as they were
C29_AdaptationSteps ==
    [][(/\ transmission' # Unset
        /\ IF transmission = Unset THEN TRUE
           ELSE transmission'.iterations > transmission.iterations)
        => LET before == LinkOf(radio, transmission')
               after == LinkOf(radio', transmission')
               quality == after.channel_conditions.link_quality_score
           IN  /\ Rung(after.modulation) \in {Rung(before.modulation),
                                              Rung(before.modulation) - 1}
               /\ before.modulation = "BPSK" => after.modulation = "BPSK"
               /\ after.data_rate <= before.data_rate
               /\ after.power_level >= before.power_level
               /\ quality >= link_quality_threshold
                    => /\ after.modulation = before.modulation
                       /\ after.data_rate = before.data_rate
                       /\ after.power_level = before.power_level]_vars

\* a transmission whose adaptations have taken a 64-QAM link down to BPSK, at
\* a lower data rate and a higher power than the link was established with
C29_Witness ==
    /\ transmission # Unset
    /\ LET link == LinkOf(radio, transmission)
           budget == _calculate_link_budget("OPTICAL", "QAM64")
       IN  /\ link.modulation = "BPSK"
           /\ link.channel_conditions.link_quality_score < poor_quality
           /\ link.data_rate < budget.data_rate
           /\ link.power_level > budget.power_level
           /\ transmission.iterations >= 4

\* C31: a spectrum sensing, made by sense_spectrum or inside
\* select_optimal_band, measures each supported band once and appends the
\* occupancy to the history of the band, which loses its oldest sample when
\* it would hold more than 100
C31_RollingHistory ==
    [][event'.op \in {"sense_spectrum", "select_optimal_band"}
        => LET bands == SeqToSet(radio.supported_bands)
           IN  /\ DOMAIN event'.arg.measured = bands
               /\ DOMAIN radio'.spectrum_sensing_data = bands
               /\ \A band \in bands :
                    LET old == Get(radio.spectrum_sensing_data, band, <<>>)
                        new == radio'.spectrum_sensing_data[band]
                        occupancy == event'.arg.measured[band].occupancy
                    IN  /\ Len(new) <= 100
                        /\ new = IF Len(old) < 100 THEN Append(old, occupancy)
                                 ELSE Append(Tail(old), occupancy)]_vars

\* a sensing that found 100 samples of two bands, the oldest of one of them
\* unlike the others, and left 100 of each without that one
C31_Witness ==
    /\ event.op = "sense_spectrum"
    /\ radio.supported_bands = <<"OPTICAL", "MICROWAVE">>
    /\ DOMAIN event.arg.before = {"OPTICAL", "MICROWAVE"}
    /\ Len(event.arg.before["OPTICAL"]) = 100
    /\ event.arg.before["OPTICAL"][1] = 5
    /\ Len(radio.spectrum_sensing_data["OPTICAL"]) = 100
    /\ Len(radio.spectrum_sensing_data["MICROWAVE"]) = 100
    /\ ~Marked(radio)

\* C32: the channel of an optical link assessed in a storm has a quality
\* below 0.2
C32_OpticalStormQuality ==
    [][(/\ event'.op = "radio_establish_link"
        /\ ~event'.arg.existed
        /\ event'.arg.band = "OPTICAL"
        /\ event'.arg.assessed.weather_impact = "storm")
        => 5 * event'.arg.assessed.link_quality_score < FullQuality]_vars

C39_LinkIdNamesBand ==
    radio # Unset
      => /\ \A i \in 1..Len(radio.active_links) :
              LET link == radio.active_links[i]
              IN  link.link_id = RadioLinkId(link.source_node, link.destination_node,
                                             link.frequency_band)
         /\ \A i, j \in 1..Len(radio.active_links) :
              LET a == radio.active_links[i]
                  b == radio.active_links[j]
              IN  (/\ a.source_node = b.source_node
                   /\ a.destination_node = b.destination_node
                   /\ a.frequency_band = b.frequency_band) => i = j

\* the chunk adaptive_transmission sends at this quality with this much left
ChunkFor(remaining, quality) ==
    Min(remaining, Max(64, (1024 * quality) \div FullQuality))

\* C40: adaptive_transmission ends.  While it is suspended its chunk is
\* min(remaining, max(64, floor(1024 * quality))), at least one byte, it has
\* counted no more failures than its bound and sent no more than the data;
\* each chunk either adds its bytes to bytes_transmitted or adds one failure;
\* the result is a success exactly when every byte was sent, and for empty
\* data it is a success with no byte and no chunk sent
C40_TransmissionTerminates ==
    /\ [](transmission # Unset
            => LET quality == LinkOf(radio, transmission).channel_conditions.link_quality_score
                   remaining == transmission.data_size - transmission.bytes_transmitted
               IN  /\ transmission.chunk_size = ChunkFor(remaining, quality)
                   /\ transmission.chunk_size >= 1
                   /\ transmission.retransmissions <= max_retransmissions
                   /\ transmission.bytes_transmitted < transmission.data_size)
    /\ [][transmission # Unset
            => LET after == IF transmission' = Unset THEN event'.arg ELSE transmission'
               IN  \/ /\ after.bytes_transmitted
                           = transmission.bytes_transmitted + transmission.chunk_size
                      /\ after.retransmissions = transmission.retransmissions
                   \/ /\ after.bytes_transmitted = transmission.bytes_transmitted
                      /\ after.retransmissions = transmission.retransmissions + 1]_vars
    /\ [](event.op = "adaptive_transmission"
            => /\ event.arg.bytes_transmitted <= event.arg.data_size
               /\ event.arg.retransmissions <= max_retransmissions + 1
               /\ event.ret = "True" <=> event.arg.bytes_transmitted = event.arg.data_size
               /\ event.arg.success <=> event.ret = "True"
               /\ event.arg.data_size = 0
                    => /\ event.ret = "True"
                       /\ event.arg.iterations = 0
                       /\ event.arg.bytes_transmitted = 0)
    /\ (transmission # Unset) ~> (transmission = Unset)

\* a transmission that sent a chunk of its data and was then given up
C40_Witness ==
    /\ event.op = "adaptive_transmission"
    /\ event.ret = "False"
    /\ event.arg.bytes_transmitted > 0
    /\ event.arg.bytes_transmitted < event.arg.data_size
    /\ event.arg.retransmissions = max_retransmissions + 1

\* C34: the ack-timeout flow of a packet whose ACK arrived during the backoff
\* sleep skips the retransmission when that sleep ends: it sends nothing and
\* starts no new timeout flow for the packet
C34_AckInBackoffSkipsResend ==
    [][\A packet_id \in acks_in_backoff :
          (/\ packet_id \in DOMAIN timers
           /\ timers[packet_id].pc = "backoff"
           /\ \/ packet_id \notin DOMAIN timers'
              \/ timers'[packet_id].pc # "backoff")
            => /\ packet_id \notin DOMAIN timers'
               /\ inflight' = inflight
               /\ Get(retry_log', packet_id, <<>>) = Get(retry_log, packet_id, <<>>)]_vars

\* C35: a valid DATA packet for this node is acknowledged on its first
\* receipt only: when its (source, sequence) key is not cached an ACK is
\* built and the key is cached, and when the key is cached the packet is
\* dropped before dispatch, with no ACK built, nothing sent and nothing stored
C35_AckedOnFirstReceiptOnly ==
    [][(/\ event'.op = "receive_packet"
        /\ is_valid(event'.arg)
        /\ event'.arg.packet_type = "DATA"
        /\ event'.arg.destination_id = node_id)
         => IF Cached(event'.arg)
            THEN /\ event'.ret = "None"
                 /\ UNCHANGED <<sequence_counter, inflight, received_packets>>
            ELSE /\ sequence_counter' = sequence_counter + 1
                 /\ PacketKey(event'.arg) \in DOMAIN duplicate_filter']_vars

\* C36: a send_packet of a DATA packet that returns False for want of a
\* route has taken the next sequence number, put the packet in pending_acks
\* and started its ack-timeout flow, and has counted nothing in packets_sent
\* and bytes_transmitted and sent nothing; such a packet is reported failed
\* only after max_retries resends by its flow, and is then no longer pending
C36_UnroutedDataTracked ==
    /\ [][(/\ event'.op = "send_packet"
           /\ event'.ret = "False"
           /\ event'.arg # None
           /\ event'.arg.packet_type = "DATA")
            => LET packet_id == event'.arg.packet_id
               IN  /\ event'.arg.sequence_number = sequence_counter
                   /\ sequence_counter' = sequence_counter + 1
                   /\ packet_id \notin DOMAIN pending_acks
                   /\ packet_id \in DOMAIN pending_acks'
                   /\ packet_id \in DOMAIN timers'
                   /\ timers'[packet_id].pc = "timeout"
                   /\ timers'[packet_id].wake = now + ack_timeout
                   /\ UNCHANGED <<packets_sent, bytes_transmitted, inflight>>]_vars
    /\ [](packets_sent = 0
            => \A packet_id \in DOMAIN failures :
                  /\ Len(Get(retry_log, packet_id, <<>>)) = max_retries
                  /\ packet_id \notin DOMAIN pending_acks)

\* a packet that never found a route, resent max_retries times and failed
C36_Witness ==
    /\ event.op = "none"
    /\ packets_sent = 0
    /\ link_qualities = EmptyDict
    /\ \E packet_id \in DOMAIN failures :
          /\ Len(retry_log[packet_id]) = max_retries
          /\ packet_id \notin DOMAIN pending_acks

\* the packet of this sequence number is in pending_acks
Pending(seq) ==
    \E packet_id \in DOMAIN pending_acks : pending_acks[packet_id].sequence_number = seq

RoutedIn(topology_data) ==
    {topology_data.routes[i][1] : i \in
        {i \in 1..Len(topology_data.routes) :
            /\ topology_data.routes[i][1] # node_id
            /\ topology_data.routes[i][2] # <<>>}}

WholeTable(topology_data) ==
    [d \in SeqToSet(topology_data.neighbors) \cup RoutedIn(topology_data) |->
        IF d \in RoutedIn(topology_data)
        THEN LET last == CHOOSE i \in 1..Len(topology_data.routes) :
                            /\ topology_data.routes[i][1] = d
                            /\ topology_data.routes[i][2] # <<>>
                            /\ \A j \in (i + 1)..Len(topology_data.routes) :
                                  \/ topology_data.routes[j][1] # d
                                  \/ topology_data.routes[j][2] = <<>>
             IN  topology_data.routes[last][2]
        ELSE d]

WholeTables == {EmptyDict} \cup {WholeTable(topology_data) : topology_data \in Topologies}

====
